---- MODULE Spec2Model ----
(***************************************************************************)
(* The transport session of the BMS monitor (src/src/data/bms_connection.py)*)
(* as a state machine.  The application is single threaded: a handler       *)
(* (connect, disconnect, a user command, a poll tick) runs to completion    *)
(* before the event loop starts the next one.  The model keeps the call     *)
(* stack of the running handler; a step executes one block of the function  *)
(* on top of the stack, and a new handler starts only on an empty stack.    *)
(* Signals are recorded in `events'; their consumers return without calling *)
(* back into the session.  The values parsed from the responses are kept in *)
(* caches that the connection logic never reads.  Spec follows the          *)
(* connection through every attempt of every command and leaves the caches  *)
(* as they are; SpecData follows the caches and the snapshot, with a        *)
(* command taken as one step.                                               *)
(***************************************************************************)
EXTENDS Integers, Sequences, FiniteSets, TLC

VARIABLES
    serial_connection,     \* "None" | "Open"     (self.serial_connection)
    is_connected,          \* self.is_connected
    consecutive_failures,  \* self.consecutive_failures
    timer_active,          \* self.update_timer.isActive()
    num_slaves,            \* self.num_slaves
    stack,                 \* call stack of the running handler, innermost last
    returned,              \* the return of the step just taken, NoReturn otherwise
    events,                \* signals emitted by the running / last handler
    fail_run,              \* observer: commands of a Connected session that
                           \*   exhausted their retries since the last success
    fails_before_success,  \* observer: fail_run at the last successful command
    auto_disconnects,      \* observer: AUTO_DISCONNECT emissions since the
                           \*   last successful connect (counted up to 2)
    master_data,           \* pack and master values parsed from the responses
    slave_data,            \* self.slave_data: device id -> values of that slave
    snapshot,              \* the snapshot emitted by the running / last handler
    exchange,              \* codec: a command frame, the bytes received for it
                           \*   and what parse_response made of them
    num_cells_top_bms,     \* self.num_cells_top_bms
    conversion,            \* a conversion function, its argument and its result
    delivered              \* the snapshot held by a consumer of data_received
                           \*   that keeps the dict it was handed

vars == <<serial_connection, is_connected, consecutive_failures, timer_active,
          num_slaves, stack, returned, events, fail_run, fails_before_success,
          auto_disconnects, master_data, slave_data, snapshot, exchange,
          num_cells_top_bms, conversion, delivered>>

caches == <<master_data, slave_data>>

telemetry == <<master_data, slave_data, snapshot>>

session == <<serial_connection, is_connected, consecutive_failures, timer_active,
             num_slaves>>

observers == <<fail_run, fails_before_success, auto_disconnects>>

----------------------------------------------------------------------------
\* Program constants

\* the loop running once more than configured
retry_count_one_more == 3 + 1

retry_count == 3

max_consecutive_failures == 5

MAX_SLAVES == 35

DEVICE_MASTER == 1

\* Bound of the model: the configured number of slaves is 0..MaxNumSlaves
MaxNumSlaves == 1

\* Bound of the model: a response carries one of the readings 1..MaxReading
MaxReading == 1

----------------------------------------------------------------------------
\* Telemetry.  One number stands for everything one read delivers: the combined
\* read sets pack voltage, pack current, cell voltages and temperatures
\* together, a die-temperature read sets one die temperature.

Readings == 1..MaxReading

\* the value a cache holds before any read, and a read that returned None
NoReading == 0

\* lines 41-47: the master's values after construction
InitialMasterData == [values |-> NoReading, die1 |-> NoReading, die2 |-> NoReading]

\* line 48: self.slave_data = {}
NoSlaveData == [id \in {} |-> InitialMasterData]

\* line 755: the entry created by the first successful combined read
NewSlaveEntry == [values |-> NoReading, die1 |-> NoReading, die2 |-> NoReading]

NoSnapshot == [emitted |-> FALSE, master |-> InitialMasterData, slaves |-> NoSlaveData]

----------------------------------------------------------------------------
\* Call stack

NoCmd == [dev |-> 0, kind |-> "-"]

Frame(fn, pc) ==
    [fn |-> fn, pc |-> pc, cmd |-> NoCmd,
     conn  |-> is_connected,                 \* is_connected at the call
     open0 |-> serial_connection = "Open",   \* handle open at the call
     cf0   |-> consecutive_failures,         \* counter at the call
     attempt |-> 0,   \* loop index of _send_command_with_retry
     tries |-> 0,     \* attempts started
     writes |-> 0,    \* frames written to the transport
     incs |-> 0,      \* increments of consecutive_failures by this call
     k |-> 0,         \* update_data: index of the next poll command
     probe |-> "-",   \* connect: result of start_communication
     nested |-> 0,    \* handlers that nested event loops have started
                      \*   while this handler runs
     issued |-> <<>>, \* update_data: the commands this tick has issued
     arg |-> 0,       \* set_num_slaves, set_num_cells_top_bms: the argument
     outcome |-> "-", \* send_debug_command: what the transport did
     read |-> NoReading] \* update_data: what its last read returned

NoReturn ==
    [fn |-> "-", cmd |-> NoCmd, result |-> "-", raised |-> FALSE,
     conn |-> FALSE, open0 |-> FALSE, cf0 |-> 0, tries |-> 0, failed |-> 0,
     writes |-> 0, incs |-> 0, probe |-> "-", depth |-> 0, outcome |-> "-",
     arg |-> 0]

ReturnEvent(f, result, raised) ==
    [fn |-> f.fn, cmd |-> f.cmd, result |-> result, raised |-> raised,
     conn |-> f.conn, open0 |-> f.open0, cf0 |-> f.cf0, tries |-> f.tries,
     failed |-> f.attempt, writes |-> f.writes, incs |-> f.incs,
     probe |-> f.probe, depth |-> Len(stack), outcome |-> f.outcome,
     arg |-> f.arg]

Top == stack[Len(stack)]

Pop == SubSeq(stack, 1, Len(stack) - 1)

SetTop(f) == [stack EXCEPT ![Len(stack)] = f]

Running(fn, pc) == stack # <<>> /\ Top.fn = fn /\ Top.pc = pc

Idle == stack = <<>>

\* return from the function on top of the stack
Return(f, result) ==
    /\ stack' = Pop
    /\ returned' = ReturnEvent(f, result, FALSE)

\* the event loop starts a handler
Call(f) ==
    /\ Idle
    /\ stack' = <<f>>
    /\ events' = <<>>
    /\ snapshot' = NoSnapshot
    /\ returned' = NoReturn

SendFrame(cmd) == [Frame("send", "entry") EXCEPT !.cmd = cmd]

Min(a, b) == IF a < b THEN a ELSE b

----------------------------------------------------------------------------
\* Commands

COMM_START == [dev |-> DEVICE_MASTER, kind |-> "COMM_START"]

COMM_STOP == [dev |-> DEVICE_MASTER, kind |-> "COMM_STOP"]

\* slave number -> device id
get_slave_device_id(slave_number) == slave_number + 1

\* get_slave_device_id raises ValueError unless 1 <= slave_number <= 35
ValidSlaveNumber(slave_number) == 1 <= slave_number /\ slave_number <= MAX_SLAVES

\* the filter of line 786 inverted
ConfiguredSlaveIds_complement(n) ==
    {get_slave_device_id(i) : i \in 1..MAX_SLAVES} \ {get_slave_device_id(i) : i \in 1..n}

\* line 773: configured_slave_ids
ConfiguredSlaveIds(n) == {get_slave_device_id(i) : i \in 1..n}

\* lines 775-787: the snapshot holds copies of the master's values and of the
\* cached entries of the configured slaves
BuildSnapshot ==
    [emitted |-> TRUE,
     master  |-> master_data,
     slaves  |-> [id \in DOMAIN slave_data \cap ConfiguredSlaveIds(num_slaves) |->
                     slave_data[id]]]

\* the cached list itself put in the dict
ListCopy_same_object(live) == [shared |-> TRUE, value |-> live]

\* lines 778-786: <list>.copy(): a new list with the elements the cached
\* list has now; `shared' says whether the dict entry is the cached object
ListCopy(live) == [shared |-> FALSE, value |-> live]

\* no snapshot has been handed to the consumer
NoDelivery ==
    [keeping |-> FALSE, received |-> FALSE,
     master |-> [shared |-> FALSE, value |-> InitialMasterData],
     slaves |-> <<>>]

\* lines 775-794: the dict that data_received.emit hands to the consumer
EmittedDict ==
    [keeping |-> TRUE, received |-> TRUE,
     master  |-> ListCopy(master_data),
     slaves  |-> [id \in DOMAIN slave_data \cap ConfiguredSlaveIds(num_slaves) |->
                     ListCopy(slave_data[id])]]

\* lines 203-207: del self.slave_data[slave_id] for the slave numbers
\* new + 1 .. old (those that get_slave_device_id accepts)
WithoutRemoved(new, old) ==
    [id \in DOMAIN slave_data \
             {get_slave_device_id(i) : i \in {j \in (new + 1)..old : ValidSlaveNumber(j)}} |->
        slave_data[id]]

\* line 773: get_slave_device_id(i) for i in range(1, self.num_slaves + 1)
ConfiguredIdsRaise(n) == \E i \in 1..n : ~ValidSlaveNumber(i)

\* lines 203-207: get_slave_device_id(slave_num) for slave_num in
\* range(num_slaves + 1, old_num_slaves + 1), when num_slaves < old_num_slaves
RemovedIdsRaise(new, old) == \E i \in (new + 1)..old : ~ValidSlaveNumber(i)

SET_NUM_SLAVES == [dev |-> DEVICE_MASTER, kind |-> "SET_NUM_SLAVES"]

\* set_num_slaves accepts 0..0x3C
MAX_NUM_SLAVES_ARG == 60

\* the arguments set_num_slaves is called with: no slave, the first number
\* of slaves beyond those that are polled, and the values next to the
\* accepted range
NumSlavesInputs == {-1, 0, MAX_SLAVES + 1, MAX_NUM_SLAVES_ARG + 1}

\* the configuration stored whatever the write command returned
WriteAccepted_unchecked(result) == TRUE

\* lines 200 and 233: if response:
WriteAccepted(result) == result = "ok"

\* the range check left out
ValidNumSlavesArg_unchecked(n) == TRUE

\* line 191: if not 0 <= num_slaves <= 0x3C: return False
ValidNumSlavesArg(n) == 0 <= n /\ n <= MAX_NUM_SLAVES_ARG

SET_NUM_CELLS == [dev |-> DEVICE_MASTER, kind |-> "SET_NUM_CELLS"]

\* set_num_cells_top_bms accepts 0..0x10
MAX_NUM_CELLS_ARG == 16

\* line 224: if not 0 <= num_cells <= 0x10: return False
ValidNumCellsArg(n) == 0 <= n /\ n <= MAX_NUM_CELLS_ARG

\* the arguments set_num_cells_top_bms is called with: an accepted value and
\* the values next to the accepted range
NumCellsInputs == {-1, 0, MAX_NUM_CELLS_ARG + 1}

\* update_data issues three reads for the master and three for every slave
\* of range(1, min(num_slaves + 1, MAX_SLAVES + 1))
NumPollCommands == 3 * (1 + Min(num_slaves, MAX_SLAVES))

\* the tick reading every device's combined data first
PollCommand_by_kind(k) ==
    [dev  |-> 1 + (k % (1 + Min(num_slaves, MAX_SLAVES))),
     kind |-> CASE k \div (1 + Min(num_slaves, MAX_SLAVES)) = 0 -> "READ_ALL"
                [] k \div (1 + Min(num_slaves, MAX_SLAVES)) = 1 -> "DIE_TEMP_1"
                [] OTHER -> "DIE_TEMP_2"]

PollCommand(k) ==
    [dev  |-> IF k \div 3 = 0 THEN DEVICE_MASTER ELSE get_slave_device_id(k \div 3),
     kind |-> CASE k % 3 = 0 -> "READ_ALL"
                [] k % 3 = 1 -> "DIE_TEMP_1"
                [] OTHER     -> "DIE_TEMP_2"]

\* What one attempt of the retry loop can meet on the transport:
\*   valid             a response that parse_response accepts
\*   invalid           bytes that parse_response rejects
\*   silent            no byte before the timeout
\*   exc_before_write  reset_input_buffer() or write() raises
\*   exc_after_write   flush() or a read raises
AttemptOutcomes == {"valid", "invalid", "silent", "exc_before_write", "exc_after_write"}

FrameWritten(outcome) == outcome # "exc_before_write"

\* if parsed and parsed.get('valid')
ResponseAccepted(outcome) == outcome = "valid"

\* the reset on success left out
CounterAfterSuccess_kept(cf) == cf

\* self.consecutive_failures = 0 on a successful attempt
CounterAfterSuccess(cf) == 0

\* the counter counting attempts instead of commands
CounterAfterExhaustion_per_attempt(cf) == cf + retry_count

\* self.consecutive_failures += 1 once the loop is exhausted
CounterAfterExhaustion(cf) == cf + 1

\* every failed command surfaced
HealthExceeded_every_failure(cf) == cf >= 1

\* the threshold test off by one
HealthExceeded_strict(cf) == cf > max_consecutive_failures

\* if self.consecutive_failures >= self.max_consecutive_failures
HealthExceeded(cf) == cf >= max_consecutive_failures

\* close() outside a try block
CloseErrorPropagates_unguarded(close_raises) == close_raises

\* try: self.serial_connection.close()  except Exception: pass
CloseErrorPropagates(close_raises) == FALSE

\* the test of the response inverted
start_communication_inverted(result) == result # "ok"

\* start_communication: result = self._send_command_with_retry(command) is not None
start_communication(result) == result = "ok"

\* an exception leaving the retry loop
AttemptsConsumed_exception_ends(outcome) ==
    IF outcome \in {"exc_before_write", "exc_after_write"} THEN retry_count ELSE 1

\* lines 657-706: the body of `for attempt in range(self.retry_count)' is one
\* try block whose except clause logs the exception; whatever the attempt
\* met, the loop goes on with the next one
AttemptsConsumed(outcome) == 1

\* the health check called from inside the retry loop
AfterHealthCheck_in_loop == "attempt"

\* lines 650-651 and 714-715: _check_connection_health() is the last statement
\* before `return None'; the retry loop is over when it runs
AfterHealthCheck == "return_none"

----------------------------------------------------------------------------
\* _send_command_with_retry and _check_connection_health

\* The tail of a failed command: consecutive_failures has been incremented
\* in this step; _check_connection_health either forces a disconnect (the
\* command returns None once disconnect() is back) or returns at once.
_check_connection_health(f) ==
    IF HealthExceeded(consecutive_failures')
    THEN /\ events' = Append(events, "AUTO_DISCONNECT")
         /\ auto_disconnects' = Min(auto_disconnects + 1, 2)
         /\ stack' = Append(SetTop([f EXCEPT !.pc = AfterHealthCheck]),
                            [Frame("disconnect", "begin") EXCEPT
                                 !.cf0 = consecutive_failures'])
         /\ returned' = NoReturn
    ELSE /\ Return(f, "None")
         /\ UNCHANGED <<events, auto_disconnects>>

\* lines 648-655: a missing or closed handle fails the command at once
send_entry ==
    /\ Running("send", "entry")
    /\ IF serial_connection # "Open"
       THEN /\ consecutive_failures' = consecutive_failures + 1
            /\ _check_connection_health([Top EXCEPT !.incs = @ + 1])
            /\ UNCHANGED <<serial_connection, is_connected, timer_active, num_slaves,
                           fail_run, fails_before_success>>
       ELSE /\ stack' = SetTop([Top EXCEPT !.pc = "attempt"])
            /\ returned' = NoReturn
            /\ UNCHANGED <<session, events, observers>>
    /\ UNCHANGED telemetry
    /\ UNCHANGED <<exchange, num_cells_top_bms, conversion, delivered>>

\* lines 657-706: one attempt of the retry loop
send_attempt ==
    /\ Running("send", "attempt")
    /\ Top.attempt < retry_count
    /\ \E outcome \in AttemptOutcomes :
         LET f == [Top EXCEPT !.tries = @ + 1,
                              !.writes = @ + (IF FrameWritten(outcome) THEN 1 ELSE 0)]
         IN  IF ResponseAccepted(outcome)
             THEN /\ consecutive_failures' = CounterAfterSuccess(consecutive_failures)
                  /\ Return(f, "ok")
                  /\ fail_run' = IF f.conn THEN 0 ELSE fail_run
                  /\ fails_before_success' =
                         IF f.conn THEN fail_run ELSE fails_before_success
                  /\ UNCHANGED <<serial_connection, is_connected, timer_active,
                                 num_slaves, events, auto_disconnects>>
             ELSE /\ stack' = SetTop([f EXCEPT !.attempt = @ + AttemptsConsumed(outcome)])
                  /\ returned' = NoReturn
                  /\ UNCHANGED <<session, events, observers>>
    /\ UNCHANGED telemetry
    /\ UNCHANGED <<exchange, num_cells_top_bms, conversion, delivered>>

\* lines 708-715: every attempt failed
send_exhausted ==
    /\ Running("send", "attempt")
    /\ Top.attempt >= retry_count
    /\ consecutive_failures' = CounterAfterExhaustion(consecutive_failures)
    /\ fail_run' = IF Top.conn THEN fail_run + 1 ELSE fail_run
    /\ _check_connection_health(
           [Top EXCEPT !.incs = @ + (consecutive_failures' - consecutive_failures)])
    /\ UNCHANGED <<serial_connection, is_connected, timer_active, num_slaves,
                   fails_before_success>>
    /\ UNCHANGED telemetry
    /\ UNCHANGED <<exchange, num_cells_top_bms, conversion, delivered>>

\* line 651 / 715: return None after the forced disconnect
send_return_none ==
    /\ Running("send", "return_none")
    /\ Return(Top, "None")
    /\ UNCHANGED <<session, events, observers>>
    /\ UNCHANGED telemetry
    /\ UNCHANGED <<exchange, num_cells_top_bms, conversion, delivered>>

----------------------------------------------------------------------------
\* connect

\* The operator interface asks for a connection only while it shows the
\* session as disconnected (master_page.on_connect_clicked).
connect_call ==
    /\ ~is_connected
    /\ Call(Frame("connect", "open"))
    /\ UNCHANGED <<session, observers>>
    /\ UNCHANGED caches
    /\ UNCHANGED <<exchange, num_cells_top_bms, conversion, delivered>>

\* connect() itself does not look at is_connected (lines 55-65): called on a
\* connected session it opens the port again and replaces the handle
connect_again_call ==
    /\ is_connected
    /\ Call(Frame("connect", "open"))
    /\ UNCHANGED <<session, observers>>
    /\ UNCHANGED caches
    /\ UNCHANGED <<exchange, num_cells_top_bms, conversion, delivered>>

\* lines 65-86: open the port, then probe with start_communication
connect_open ==
    /\ Running("connect", "open")
    /\ \E opened \in BOOLEAN :
         IF opened
         THEN /\ serial_connection' = "Open"
              /\ stack' = Append(SetTop([Top EXCEPT !.pc = "probed"]),
                                 [SendFrame(COMM_START) EXCEPT !.open0 = TRUE])
              /\ returned' = NoReturn
              /\ UNCHANGED <<is_connected, consecutive_failures, timer_active,
                             num_slaves, events, observers>>
         ELSE \* serial.Serial() raises: except branch, lines 107-110
              /\ events' = Append(events, "ERROR_EXCEPTION")
              /\ Return(Top, "False")
              /\ UNCHANGED <<session, observers>>
    /\ UNCHANGED telemetry
    /\ UNCHANGED <<exchange, num_cells_top_bms, conversion, delivered>>

\* the handle kept after a failed probe
connect_no_response_leak(f) ==
    /\ events' = Append(events, "ERROR_NO_RESPONSE")
    /\ Return(f, "False")
    /\ UNCHANGED <<session, observers>>

\* lines 97-103: no response to the probe: close and release the handle
connect_no_response(f) ==
    /\ serial_connection' = "None"
    /\ events' = Append(events, "ERROR_NO_RESPONSE")
    /\ Return(f, "False")
    /\ UNCHANGED <<is_connected, consecutive_failures, timer_active,
                   num_slaves, observers>>

\* lines 86-110: the probe is back
connect_probed ==
    /\ Running("connect", "probed")
    /\ LET f == [Top EXCEPT !.probe = returned.result]
       IN  IF start_communication(returned.result)
           THEN /\ is_connected' = TRUE
                /\ consecutive_failures' = 0
                /\ events' = Append(events, "CONNECTED_TRUE")
                /\ timer_active' = TRUE
                /\ Return(f, "True")
                /\ fail_run' = 0
                /\ fails_before_success' = 0
                /\ auto_disconnects' = 0
                /\ UNCHANGED <<serial_connection, num_slaves>>
           ELSE IF serial_connection = "None"
           THEN \* self.serial_connection.close() on None raises
                \* AttributeError, caught by the except branch
                /\ events' = Append(events, "ERROR_EXCEPTION")
                /\ Return(f, "False")
                /\ UNCHANGED <<session, observers>>
           ELSE connect_no_response(f)
    /\ UNCHANGED telemetry
    /\ UNCHANGED <<exchange, num_cells_top_bms, conversion, delivered>>

----------------------------------------------------------------------------
\* disconnect

\* disconnect() may be requested in any state
disconnect_call ==
    /\ Call(Frame("disconnect", "begin"))
    /\ UNCHANGED <<session, observers>>
    /\ UNCHANGED caches
    /\ UNCHANGED <<exchange, num_cells_top_bms, conversion, delivered>>

StopCommandSent_unguarded(handle) == TRUE

\* lines 165-166: stop_communication() returns False, without building or
\* sending a frame, when there is no handle or the handle is closed
StopCommandSent(handle) == handle = "Open"

\* lines 114-122: flags, timer, then stop_communication (lines 157-179)
disconnect_begin ==
    /\ Running("disconnect", "begin")
    /\ is_connected' = FALSE
    /\ consecutive_failures' = 0
    /\ timer_active' = FALSE
    /\ stack' = IF StopCommandSent(serial_connection)
                THEN Append(SetTop([Top EXCEPT !.pc = "close"]),
                            [SendFrame(COMM_STOP) EXCEPT !.conn = FALSE, !.cf0 = 0])
                ELSE SetTop([Top EXCEPT !.pc = "close"])
    /\ returned' = NoReturn
    /\ UNCHANGED <<serial_connection, num_slaves, events, observers>>
    /\ UNCHANGED telemetry
    /\ UNCHANGED <<exchange, num_cells_top_bms, conversion, delivered>>

\* lines 124-132: close the handle, release it, emit connected=false
disconnect_close ==
    /\ Running("disconnect", "close")
    /\ \E close_raises \in (IF serial_connection = "Open" THEN BOOLEAN ELSE {FALSE}) :
         IF CloseErrorPropagates(close_raises)
         THEN /\ stack' = Pop
              /\ returned' = ReturnEvent(Top, "-", TRUE)
              /\ UNCHANGED <<session, events, observers>>
         ELSE /\ serial_connection' = "None"
              /\ events' = Append(events, "CONNECTED_FALSE")
              /\ Return(Top, "None")
              /\ UNCHANGED <<is_connected, consecutive_failures, timer_active,
                             num_slaves, observers>>
    /\ UNCHANGED telemetry
    /\ UNCHANGED <<exchange, num_cells_top_bms, conversion, delivered>>

----------------------------------------------------------------------------
\* update_data (the poll tick) and user commands

\* the update_timer fires only while it is active
update_data_call ==
    /\ timer_active
    /\ Call(Frame("update_data", "begin"))
    /\ UNCHANGED <<session, observers>>
    /\ UNCHANGED caches
    /\ UNCHANGED <<exchange, num_cells_top_bms, conversion, delivered>>

\* lines 728-729
update_data_begin ==
    /\ Running("update_data", "begin")
    /\ IF ~is_connected
       THEN Return(Top, "None")
       ELSE stack' = SetTop([Top EXCEPT !.pc = "poll"]) /\ returned' = NoReturn
    /\ UNCHANGED <<session, events, observers>>
    /\ UNCHANGED telemetry
    /\ UNCHANGED <<exchange, num_cells_top_bms, conversion, delivered>>

\* lines 731-768: the next read of the tick
update_data_poll ==
    /\ Running("update_data", "poll")
    /\ Top.k < NumPollCommands
    /\ stack' = Append(SetTop([Top EXCEPT !.k = @ + 1,
                                          !.issued = Append(@, PollCommand(Top.k))]),
                       SendFrame(PollCommand(Top.k)))
    /\ returned' = NoReturn
    /\ UNCHANGED <<session, events, observers>>
    /\ UNCHANGED telemetry
    /\ UNCHANGED <<exchange, num_cells_top_bms, conversion, delivered>>

\* lines 770-794: build the set of configured ids, emit the snapshot
update_data_emit ==
    /\ Running("update_data", "poll")
    /\ Top.k >= NumPollCommands
    /\ IF ConfiguredIdsRaise(num_slaves)
       THEN \* ValueError leaves update_data before line 794
            /\ stack' = Pop
            /\ returned' = ReturnEvent(Top, "-", TRUE)
            /\ UNCHANGED <<events, snapshot, delivered>>
       ELSE /\ events' = Append(events, "SNAPSHOT")
            /\ snapshot' = BuildSnapshot
            /\ delivered' = IF delivered.keeping THEN EmittedDict ELSE delivered
            /\ Return(Top, "None")
    /\ UNCHANGED <<session, observers, caches>>
    /\ UNCHANGED <<exchange, num_cells_top_bms, conversion>>

\* set_num_slaves may be called in any state
set_num_slaves_call ==
    /\ \E n \in NumSlavesInputs :
         Call([Frame("set_num_slaves", "check") EXCEPT !.arg = n, !.cmd = SET_NUM_SLAVES])
    /\ UNCHANGED <<session, observers>>
    /\ UNCHANGED caches
    /\ UNCHANGED <<exchange, num_cells_top_bms, conversion, delivered>>

\* lines 191-198: the range check, then the write command
set_num_slaves_check ==
    /\ Running("set_num_slaves", "check")
    /\ IF ~ValidNumSlavesArg(Top.arg)
       THEN Return(Top, "False")
       ELSE /\ stack' = Append(SetTop([Top EXCEPT !.pc = "written"]),
                               SendFrame(SET_NUM_SLAVES))
            /\ returned' = NoReturn
    /\ UNCHANGED <<session, events, observers>>
    /\ UNCHANGED telemetry
    /\ UNCHANGED <<exchange, num_cells_top_bms, conversion, delivered>>

\* lines 199-212: the response is back
set_num_slaves_written ==
    /\ Running("set_num_slaves", "written")
    /\ IF WriteAccepted(returned.result)
       THEN /\ num_slaves' = Top.arg
            /\ slave_data' = WithoutRemoved(Top.arg, num_slaves)
            /\ IF Top.arg < num_slaves /\ RemovedIdsRaise(Top.arg, num_slaves)
               THEN \* ValueError from the loop that clears removed slaves
                    /\ stack' = Pop
                    /\ returned' = ReturnEvent(Top, "-", TRUE)
               ELSE Return(Top, "True")
       ELSE /\ Return(Top, "False")
            /\ UNCHANGED <<num_slaves, slave_data>>
    /\ UNCHANGED <<serial_connection, is_connected, consecutive_failures,
                   timer_active, events, observers, master_data, snapshot>>
    /\ UNCHANGED <<exchange, num_cells_top_bms, conversion, delivered>>

\* set_num_cells_top_bms may be called in any state
set_num_cells_top_bms_call ==
    /\ \E n \in NumCellsInputs :
         Call([Frame("set_num_cells_top_bms", "check") EXCEPT
                  !.arg = n, !.cmd = SET_NUM_CELLS])
    /\ UNCHANGED <<session, observers>>
    /\ UNCHANGED caches
    /\ UNCHANGED <<exchange, num_cells_top_bms, conversion, delivered>>

\* lines 224-232: the range check, then the write command
set_num_cells_top_bms_check ==
    /\ Running("set_num_cells_top_bms", "check")
    /\ IF ~ValidNumCellsArg(Top.arg)
       THEN Return(Top, "False")
       ELSE /\ stack' = Append(SetTop([Top EXCEPT !.pc = "written"]),
                               SendFrame(SET_NUM_CELLS))
            /\ returned' = NoReturn
    /\ UNCHANGED <<session, events, observers>>
    /\ UNCHANGED telemetry
    /\ UNCHANGED <<exchange, num_cells_top_bms, conversion, delivered>>

\* lines 233-236: the response is back
set_num_cells_top_bms_written ==
    /\ Running("set_num_cells_top_bms", "written")
    /\ IF WriteAccepted(returned.result)
       THEN /\ num_cells_top_bms' = Top.arg
            /\ Return(Top, "True")
       ELSE /\ Return(Top, "False")
            /\ UNCHANGED num_cells_top_bms
    /\ UNCHANGED <<session, events, observers>>
    /\ UNCHANGED telemetry
    /\ UNCHANGED <<exchange, conversion, delivered>>

\* set_balancing and the other one-command calls of the operator interface,
\* which issues them only while is_connected (main_window.py)
command_call ==
    /\ is_connected
    /\ \E dev \in 1..(1 + Min(num_slaves, MAX_SLAVES)) :
         Call(SendFrame([dev |-> dev, kind |-> "SET_BALANCING"]))
    /\ UNCHANGED <<session, observers>>
    /\ UNCHANGED caches
    /\ UNCHANGED <<exchange, num_cells_top_bms, conversion, delivered>>

\* the calls of the session that take a device id
DeviceCallKinds ==
    {"SET_BALANCING", "SET_BALANCING_SEQ", "READ_BALANCING_STATUS",
     "READ_BALANCING_STATE", "READ_ALL", "DIE_TEMP_1", "DIE_TEMP_2"}

\* the device ids they are called with: the master, the last slave, and the
\* values next to the range of the devices and next to the range of a byte
DeviceIdInputs == {-1, 0, DEVICE_MASTER, MAX_SLAVES + 1, MAX_SLAVES + 2, 255, 256}

\* bytearray([...]) of build_write_command / build_read_command raises
\* ValueError for an element outside range(256)
FitsByte(x) == 0 <= x /\ x <= 255

\* set_balancing, read_all_data, ... called with any device id: the command
\* is built from the device id as given and handed to the retry loop
device_call ==
    /\ Idle
    /\ \E dev \in DeviceIdInputs, kind \in DeviceCallKinds :
         IF FitsByte(dev)
         THEN Call(SendFrame([dev |-> dev, kind |-> kind]))
         ELSE \* ValueError leaves the call before anything is sent
              /\ returned' = ReturnEvent([Frame("device_call", "build") EXCEPT
                                              !.cmd = [dev |-> dev, kind |-> kind]],
                                         "-", TRUE)
              /\ events' = <<>>
              /\ snapshot' = NoSnapshot
              /\ UNCHANGED stack
    /\ UNCHANGED <<session, observers>>
    /\ UNCHANGED caches
    /\ UNCHANGED <<exchange, num_cells_top_bms, conversion, delivered>>

----------------------------------------------------------------------------
\* A command as one step: _send_command_with_retry from its call to its
\* return, with the forced disconnect it may run.  `ok' tells whether one of
\* its attempts meets a valid response, `stop_ok' the same for the comm-stop
\* of a forced disconnect.

CommandSucceeds(ok) == serial_connection = "Open" /\ ok

\* lines 648-650, 700 and 708-709
CounterAfterCommand(ok) ==
    IF serial_connection # "Open" THEN consecutive_failures + 1
    ELSE IF ok THEN CounterAfterSuccess(consecutive_failures)
    ELSE CounterAfterExhaustion(consecutive_failures)

\* lines 717-724
ForcedDisconnect(ok) == ~CommandSucceeds(ok) /\ HealthExceeded(CounterAfterCommand(ok))

\* `log' is what the handler has emitted so far
CommandStep(log, ok, stop_ok) ==
    IF ForcedDisconnect(ok)
    THEN \* emit AUTO_DISCONNECT, then disconnect() (lines 112-132)
         /\ is_connected' = FALSE
         /\ timer_active' = FALSE
         /\ consecutive_failures' =
                IF serial_connection = "Open" /\ ~stop_ok
                THEN CounterAfterExhaustion(0) ELSE 0
         /\ serial_connection' = "None"
         /\ events' = log \o <<"AUTO_DISCONNECT", "CONNECTED_FALSE">>
    ELSE /\ consecutive_failures' = CounterAfterCommand(ok)
         /\ events' = log
         /\ UNCHANGED <<serial_connection, is_connected, timer_active>>

\* the outcomes of a command that differ in their effect: the transport is
\* reached only through an open handle, the comm-stop is sent only by a
\* forced disconnect on an open handle
CommandOutcomes == IF serial_connection = "Open" THEN BOOLEAN ELSE {FALSE}

StopOutcomes(ok) ==
    IF ForcedDisconnect(ok) /\ serial_connection = "Open" THEN BOOLEAN ELSE {TRUE}

\* what the reader of a command hands to update_data: None after a failed
\* command or a payload too short to parse (lines 549-551, 490-493),
\* otherwise the parsed reading
ReadResults(ok) == IF CommandSucceeds(ok) THEN {NoReading} \cup Readings ELSE {NoReading}

\* lines 494-495 and 519-520: struct.unpack('>H', data) raises struct.error
\* for a payload of more than 2 bytes; read_die_temperature_1/2 do not
\* catch it
ReaderRaises(cmd, ok) ==
    IF CommandSucceeds(ok) /\ cmd.kind \in {"DIE_TEMP_1", "DIE_TEMP_2"}
    THEN BOOLEAN ELSE {FALSE}

\* lines 732-745 (master) and 752-768 (slave): a reading that is not None is
\* stored; a slave's entry is created by a combined read only, and its die
\* temperatures are stored only if the entry exists (line 762)
StoreReading(cmd, r) ==
    IF r = NoReading THEN UNCHANGED caches
    ELSE IF cmd.dev = DEVICE_MASTER
    THEN /\ master_data' =
               CASE cmd.kind = "READ_ALL"   -> [master_data EXCEPT !.values = r]
                 [] cmd.kind = "DIE_TEMP_1" -> [master_data EXCEPT !.die1 = r]
                 [] OTHER                   -> [master_data EXCEPT !.die2 = r]
         /\ UNCHANGED slave_data
    ELSE IF cmd.kind = "READ_ALL"
    THEN LET entry == IF cmd.dev \in DOMAIN slave_data
                      THEN slave_data[cmd.dev] ELSE NewSlaveEntry
         IN  /\ slave_data' = [id \in DOMAIN slave_data \cup {cmd.dev} |->
                                  IF id = cmd.dev THEN [entry EXCEPT !.values = r]
                                  ELSE slave_data[id]]
             /\ UNCHANGED master_data
    ELSE IF cmd.dev \in DOMAIN slave_data
    THEN /\ slave_data' =
               [slave_data EXCEPT ![cmd.dev] =
                   IF cmd.kind = "DIE_TEMP_1" THEN [@ EXCEPT !.die1 = r]
                                              ELSE [@ EXCEPT !.die2 = r]]
         /\ UNCHANGED master_data
    ELSE UNCHANGED caches

\* lines 731-768: the next read of the tick, from its call to the store of
\* what it returned
update_data_read ==
    /\ Running("update_data", "poll")
    /\ Top.k < NumPollCommands
    /\ LET cmd == PollCommand(Top.k)
       IN  \E ok \in CommandOutcomes : \E stop_ok \in StopOutcomes(ok) :
             /\ CommandStep(events, ok, stop_ok)
             /\ \E raises \in ReaderRaises(cmd, ok) :
                  IF raises
                  THEN /\ stack' = Pop
                       /\ returned' = ReturnEvent(Top, "-", TRUE)
                       /\ UNCHANGED caches
                  ELSE \E r \in ReadResults(ok) :
                         /\ StoreReading(cmd, r)
                         /\ stack' = SetTop([Top EXCEPT !.k = @ + 1,
                                                        !.issued = Append(@, cmd),
                                                        !.read = r])
                         /\ returned' = NoReturn
    /\ UNCHANGED <<num_slaves, observers, snapshot>>
    /\ UNCHANGED <<exchange, num_cells_top_bms, conversion, delivered>>

\* the values set_num_slaves and the spin box of the operator interface are
\* given: every number of slaves of the model and the first rejected value
ConfigInputs == (0..MaxNumSlaves) \cup {MAX_NUM_SLAVES_ARG + 1}

SetNumSlavesFrame(n) ==
    [Frame("set_num_slaves", "check") EXCEPT !.arg = n, !.cmd = SET_NUM_SLAVES]

\* lines 181-212: set_num_slaves from its call to its return
set_num_slaves_apply ==
    /\ Idle
    /\ \E n \in ConfigInputs, ok \in CommandOutcomes : \E stop_ok \in StopOutcomes(ok) :
         IF ~(0 <= n /\ n <= MAX_NUM_SLAVES_ARG)
         THEN /\ returned' = ReturnEvent(SetNumSlavesFrame(n), "False", FALSE)
              /\ events' = <<>>
              /\ UNCHANGED <<session, slave_data>>
         ELSE /\ CommandStep(<<>>, ok, stop_ok)
              /\ IF CommandSucceeds(ok)
                 THEN /\ num_slaves' = n
                      /\ slave_data' = WithoutRemoved(n, num_slaves)
                      /\ returned' =
                            ReturnEvent(SetNumSlavesFrame(n),
                                        IF n < num_slaves /\ RemovedIdsRaise(n, num_slaves)
                                        THEN "-" ELSE "True",
                                        n < num_slaves /\ RemovedIdsRaise(n, num_slaves))
                 ELSE /\ returned' = ReturnEvent(SetNumSlavesFrame(n), "False", FALSE)
                      /\ UNCHANGED <<num_slaves, slave_data>>
    /\ snapshot' = NoSnapshot
    /\ UNCHANGED <<stack, observers, master_data>>
    /\ UNCHANGED <<exchange, num_cells_top_bms, conversion, delivered>>

\* main_window.py lines 439-470: the spin box (0..MAX_SLAVES) was changed
on_num_slaves_changed ==
    /\ Idle
    /\ \E n \in 0..Min(MaxNumSlaves, MAX_SLAVES), ok \in CommandOutcomes :
       \E stop_ok \in StopOutcomes(ok) :
         \* lines 446-454: num_slaves is assigned and the removed slaves are
         \* cleared before anything is sent
         /\ num_slaves' = n
         /\ slave_data' = WithoutRemoved(n, num_slaves)
         \* lines 459-463: set_num_slaves(n) on a connected session
         /\ IF is_connected
            THEN CommandStep(<<>>, ok, stop_ok)
            ELSE /\ events' = <<>>
                 /\ UNCHANGED <<serial_connection, is_connected, consecutive_failures,
                                timer_active>>
         /\ returned' = ReturnEvent([SetNumSlavesFrame(n) EXCEPT !.fn = "on_num_slaves_changed"],
                                    "None", FALSE)
    /\ snapshot' = NoSnapshot
    /\ UNCHANGED <<stack, observers, master_data>>
    /\ UNCHANGED <<exchange, num_cells_top_bms, conversion, delivered>>

----------------------------------------------------------------------------
\* The frame codec (src/src/protocol/modbus_rtu.py).  A frame is a sequence
\* of bytes.

FRAME_START == 42

FRAME_END == 36

FUNC_READ == 3

FUNC_WRITE == 6

FUNC_DEBUG == 11

\* Bound of the model: a read response carries at most MaxPayload data bytes
MaxPayload == 2

RECURSIVE Xor(_, _)
\* a ^ b on non-negative integers
Xor(a, b) ==
    IF a = 0 THEN b
    ELSE IF b = 0 THEN a
    ELSE ((a + b) % 2) + 2 * Xor(a \div 2, b \div 2)

CRC16_TABLE == <<
    \h0000, \hC0C1, \hC181, \h0140, \hC301, \h03C0, \h0280, \hC241,
    \hC601, \h06C0, \h0780, \hC741, \h0500, \hC5C1, \hC481, \h0440,
    \hCC01, \h0CC0, \h0D80, \hCD41, \h0F00, \hCFC1, \hCE81, \h0E40,
    \h0A00, \hCAC1, \hCB81, \h0B40, \hC901, \h09C0, \h0880, \hC841,
    \hD801, \h18C0, \h1980, \hD941, \h1B00, \hDBC1, \hDA81, \h1A40,
    \h1E00, \hDEC1, \hDF81, \h1F40, \hDD01, \h1DC0, \h1C80, \hDC41,
    \h1400, \hD4C1, \hD581, \h1540, \hD701, \h17C0, \h1680, \hD641,
    \hD201, \h12C0, \h1380, \hD341, \h1100, \hD1C1, \hD081, \h1040,
    \hF001, \h30C0, \h3180, \hF141, \h3300, \hF3C1, \hF281, \h3240,
    \h3600, \hF6C1, \hF781, \h3740, \hF501, \h35C0, \h3480, \hF441,
    \h3C00, \hFCC1, \hFD81, \h3D40, \hFF01, \h3FC0, \h3E80, \hFE41,
    \hFA01, \h3AC0, \h3B80, \hFB41, \h3900, \hF9C1, \hF881, \h3840,
    \h2800, \hE8C1, \hE981, \h2940, \hEB01, \h2BC0, \h2A80, \hEA41,
    \hEE01, \h2EC0, \h2F80, \hEF41, \h2D00, \hEDC1, \hEC81, \h2C40,
    \hE401, \h24C0, \h2580, \hE541, \h2700, \hE7C1, \hE681, \h2640,
    \h2200, \hE2C1, \hE381, \h2340, \hE101, \h21C0, \h2080, \hE041,
    \hA001, \h60C0, \h6180, \hA141, \h6300, \hA3C1, \hA281, \h6240,
    \h6600, \hA6C1, \hA781, \h6740, \hA501, \h65C0, \h6480, \hA441,
    \h6C00, \hACC1, \hAD81, \h6D40, \hAF01, \h6FC0, \h6E80, \hAE41,
    \hAA01, \h6AC0, \h6B80, \hAB41, \h6900, \hA9C1, \hA881, \h6840,
    \h7800, \hB8C1, \hB981, \h7940, \hBB01, \h7BC0, \h7A80, \hBA41,
    \hBE01, \h7EC0, \h7F80, \hBF41, \h7D00, \hBDC1, \hBC81, \h7C40,
    \hB401, \h74C0, \h7580, \hB541, \h7700, \hB7C1, \hB681, \h7640,
    \h7200, \hB2C1, \hB381, \h7340, \hB101, \h71C0, \h7080, \hB041,
    \h5000, \h90C1, \h9181, \h5140, \h9301, \h53C0, \h5280, \h9241,
    \h9601, \h56C0, \h5780, \h9741, \h5500, \h95C1, \h9481, \h5440,
    \h9C01, \h5CC0, \h5D80, \h9D41, \h5F00, \h9FC1, \h9E81, \h5E40,
    \h5A00, \h9AC1, \h9B81, \h5B40, \h9901, \h59C0, \h5880, \h9841,
    \h8801, \h48C0, \h4980, \h8941, \h4B00, \h8BC1, \h8A81, \h4A40,
    \h4E00, \h8EC1, \h8F81, \h4F40, \h8D01, \h4DC0, \h4C80, \h8C41,
    \h4400, \h84C1, \h8581, \h4540, \h8701, \h47C0, \h4680, \h8641,
    \h8201, \h42C0, \h4380, \h8341, \h4100, \h81C1, \h8081, \h4040
>>

RECURSIVE crc16_loop(_, _)
\* for byte in data: crc = (crc >> 8) ^ CRC16_TABLE[(crc ^ byte) & 0xFF]
crc16_loop(crc, data) ==
    IF data = <<>> THEN crc
    ELSE crc16_loop(Xor(crc \div 256, CRC16_TABLE[(Xor(crc, Head(data)) % 256) + 1]),
                    Tail(data))

calculate_crc16(data) == crc16_loop(65535, data) % 65536

RECURSIVE crc16_debug_loop(_, _)
\* for byte in data: crc ^= byte & 0x00FF
\*                    crc = CRC16_TABLE[crc & 0x00FF] ^ (crc >> 8)
crc16_debug_loop(crc, data) ==
    IF data = <<>> THEN crc
    ELSE LET x == Xor(crc, Head(data) % 256)
         IN  crc16_debug_loop(Xor(CRC16_TABLE[(x % 256) + 1], x \div 256), Tail(data))

\* the debug CRC started from 0
calculate_crc16_debug_zero_seed(data) == crc16_debug_loop(0, data) % 65536

calculate_crc16_debug(data) == crc16_debug_loop(65535, data) % 65536

\* the CRC appended high byte first
CrcBytes_big_endian(crc) == <<(crc \div 256) % 256, crc % 256>>

\* command.extend([crc & 0xFF, (crc >> 8) & 0xFF])
CrcBytes(crc) == <<crc % 256, (crc \div 256) % 256>>

\* the six bytes of a command and the CRC of all but the first of them
BuildCommand(device_id, func, address, word) ==
    LET command == <<FRAME_START, device_id, func, address,
                     (word \div 256) % 256, word % 256>>
    IN  command \o CrcBytes(calculate_crc16(Tail(command)))

build_write_command(device_id, address, data) ==
    BuildCommand(device_id, FUNC_WRITE, address, data)

build_read_command(device_id, address, word_count) ==
    BuildCommand(device_id, FUNC_READ, address, word_count)

\* lines 207-220: start byte, function code, the command bytes, the debug
\* CRC of all but the start byte, the end byte
build_debug_command(command_bytes) ==
    LET command == <<FRAME_START, FUNC_DEBUG>> \o command_bytes
    IN  command \o CrcBytes(calculate_crc16_debug(Tail(command))) \o <<FRAME_END>>

\* the CRC not compared
CrcVerifies_skipped(response) == TRUE

\* lines 245-250: struct.unpack('<H', response[-2:]) against
\* calculate_crc16(response[1:-2])
CrcVerifies(response) ==
    response[Len(response) - 1] + 256 * response[Len(response)] =
        calculate_crc16(SubSeq(response, 2, Len(response) - 2))

\* parse_response returned None
ParsedNone ==
    [none |-> TRUE, valid |-> FALSE, device_id |-> 0, function_code |-> 0,
     has_data |-> FALSE, byte_count |-> 0, data |-> <<>>, address |-> 0, value |-> 0]

\* response.find(FRAME_END, 2), as an index counted from 0; -1 if absent
FindFrameEnd(response) ==
    LET found == {i \in 3..Len(response) : response[i] = FRAME_END}
    IN  IF found = {} THEN -1
        ELSE (CHOOSE i \in found : \A j \in found : i <= j) - 1

parse_response(response) ==
    IF Len(response) < 6 THEN ParsedNone
    ELSE IF response[1] # FRAME_START THEN ParsedNone
    ELSE IF ~CrcVerifies(response) THEN ParsedNone
    ELSE LET result == [ParsedNone EXCEPT !.none = FALSE, !.valid = TRUE,
                                          !.device_id = response[2],
                                          !.function_code = response[3]]
             byte_count == 256 * response[4] + response[5]
             end_idx == FindFrameEnd(response)
         IN  CASE response[3] = FUNC_READ ->
                    IF Len(response) >= 5 + byte_count + 2
                    THEN [result EXCEPT !.has_data = TRUE, !.byte_count = byte_count,
                                        !.data = SubSeq(response, 6, 5 + byte_count)]
                    ELSE result
               [] response[3] = FUNC_WRITE ->
                    IF Len(response) >= 8
                    THEN [result EXCEPT !.has_data = TRUE, !.address = response[4],
                                        !.value = 256 * response[5] + response[6]]
                    ELSE result
               [] response[3] = FUNC_DEBUG ->
                    IF end_idx > 2
                    THEN [result EXCEPT !.has_data = TRUE,
                                        !.data = SubSeq(response, 3, end_idx)]
                    ELSE result
               [] OTHER -> result

\* line 306: if end_idx > 2
EndMarkerFound(end_idx) == end_idx > 2

\* returns the payload (has_data, data) or None
parse_debug_response(response) ==
    IF Len(response) < 4 THEN ParsedNone
    ELSE IF response[1] # FRAME_START THEN ParsedNone
    ELSE IF response[2] # FUNC_DEBUG THEN ParsedNone
    ELSE IF EndMarkerFound(FindFrameEnd(response))
    THEN [ParsedNone EXCEPT !.none = FALSE, !.has_data = TRUE,
                            !.data = SubSeq(response, 3, FindFrameEnd(response))]
    ELSE ParsedNone

\* bms_connection.py lines 690-704: what the attempt that received
\* `response' has met
AttemptOutcomeOf(response) ==
    IF response = <<>> THEN "silent"
    ELSE IF ~parse_response(response).none /\ parse_response(response).valid THEN "valid"
    ELSE "invalid"

\* The commands that are built: the master, the first and the last slave and
\* the smallest and the largest byte;
\* the addresses of the combined read and of the comm-start write and the
\* largest byte; word values with equal and with different bytes
CodecDevices ==
    {0, DEVICE_MASTER, get_slave_device_id(1), get_slave_device_id(MAX_SLAVES), 255}

CodecAddresses == {1, 255}

CodecWords == {0, 23, 43690, 65280, 65535}

\* The bytes the device may answer with.  A read response declares a byte
\* count and carries data bytes; the count may differ from the bytes carried.
PayloadBytes == {0, 36, 255}

Payloads == UNION {[1..n -> PayloadBytes] : n \in 0..MaxPayload}

DeclaredCounts == 0..(MaxPayload + 1) \cup {46}

WithCrc(body) == body \o CrcBytes(calculate_crc16(Tail(body)))

ReadResponse(device_id, byte_count, data) ==
    WithCrc(<<FRAME_START, device_id, FUNC_READ, byte_count \div 256, byte_count % 256>>
            \o data)

\* the echo of the command, and the read responses of the addressed device
DeviceFrames(request) ==
    {request} \cup
    {ReadResponse(request[2], n, d) : n \in DeclaredCounts, d \in Payloads}

\* a frame as it may arrive: whole, cut short, or with one byte altered
Damaged(f) ==
    {SubSeq(f, 1, n) : n \in 0..Len(f)} \cup
    {[f EXCEPT ![i] = b] : i \in DOMAIN f, b \in {0, FRAME_START, 255}}

\* well-formed frames that do not answer the request: the same frame sent by
\* another device of the bus
ForeignFrames(request) ==
    {WithCrc(<<FRAME_START, d>> \o SubSeq(request, 3, Len(request) - 2)) :
        d \in CodecDevices \ {request[2]}}

ResponsesTo(request) ==
    UNION {Damaged(f) : f \in DeviceFrames(request)} \cup ForeignFrames(request)

NoExchange ==
    [func |-> 0, device_id |-> 0, address |-> 0, word |-> 0, command_bytes |-> <<>>,
     request |-> <<>>,
     received |-> FALSE, response |-> <<>>, parsed |-> ParsedNone, accepted |-> FALSE]

\* build_write_command / build_read_command on the chosen arguments
build_command ==
    /\ exchange.func \in {FUNC_READ, FUNC_WRITE}
    /\ exchange.request = <<>>
    /\ exchange' = [exchange EXCEPT
                       !.request = IF exchange.func = FUNC_WRITE
                                   THEN build_write_command(exchange.device_id,
                                                            exchange.address, exchange.word)
                                   ELSE build_read_command(exchange.device_id,
                                                           exchange.address, exchange.word)]
    /\ UNCHANGED <<session, stack, returned, events, observers, telemetry>>
    /\ UNCHANGED <<num_cells_top_bms, conversion, delivered>>

\* bms_connection.py lines 690-701: the bytes read for the command are
\* parsed, and accepted if parse_response says valid
receive_response ==
    /\ exchange.func \in {FUNC_READ, FUNC_WRITE}
    /\ exchange.request # <<>>
    /\ ~exchange.received
    /\ \E response \in ResponsesTo(exchange.request) :
         exchange' = [exchange EXCEPT
                         !.received = TRUE,
                         !.response = response,
                         !.parsed = parse_response(response),
                         !.accepted = ResponseAccepted(AttemptOutcomeOf(response))]
    /\ UNCHANGED <<session, stack, returned, events, observers, telemetry>>
    /\ UNCHANGED <<num_cells_top_bms, conversion, delivered>>

\* The debug commands that are built, and the bytes that may arrive for one:
\* every sequence of the bytes that parse_debug_response tells apart (start
\* byte, function code, end byte, another byte)
DebugCommandBytes == {FRAME_END, 65}

DebugCommands == UNION {[1..n -> DebugCommandBytes] : n \in 0..MaxPayload}

DebugResponseBytes == {FRAME_START, FUNC_DEBUG, FRAME_END, 65}

DebugResponses == UNION {[1..n -> DebugResponseBytes] : n \in 0..(MaxPayload + 3)}

\* bms_connection.py line 593: build_debug_command on the chosen bytes
build_debug ==
    /\ exchange.func = FUNC_DEBUG
    /\ exchange.request = <<>>
    /\ exchange' = [exchange EXCEPT !.request = build_debug_command(exchange.command_bytes)]
    /\ UNCHANGED <<session, stack, returned, events, observers, telemetry>>
    /\ UNCHANGED <<num_cells_top_bms, conversion, delivered>>

\* bms_connection.py lines 621-629: `if response:' the bytes read are parsed
\* and what parse_debug_response returns is returned
receive_debug_response ==
    /\ exchange.func = FUNC_DEBUG
    /\ exchange.request # <<>>
    /\ ~exchange.received
    /\ \E response \in DebugResponses :
         exchange' = [exchange EXCEPT
                         !.received = TRUE,
                         !.response = response,
                         !.parsed = IF response = <<>> THEN ParsedNone
                                    ELSE parse_debug_response(response),
                         !.accepted = response # <<>> /\ ~parse_debug_response(response).none]
    /\ UNCHANGED <<session, stack, returned, events, observers, telemetry>>
    /\ UNCHANGED <<num_cells_top_bms, conversion, delivered>>

----------------------------------------------------------------------------
\* send_debug_command

\* What the single exchange of send_debug_command can meet:
\*   closed     the handle is missing or closed (line 596)
\*   parsed     a response that parse_debug_response accepts
\*   malformed  bytes for which parse_debug_response returns None
\*   silent     no byte before the timeout
\*   exception  write(), flush() or a read raises
DebugOutcomes ==
    IF serial_connection # "Open" THEN {"closed"}
    ELSE {"parsed", "malformed", "silent", "exception"}

\* a failed debug command counted like a failed command
DebugCounter_counted(cf, outcome) == IF outcome = "parsed" THEN 0 ELSE cf + 1

\* send_debug_command has no statement that assigns consecutive_failures
DebugCounter(cf, outcome) == cf

\* send_debug_command may be called in any state
send_debug_command_call ==
    /\ Call([Frame("send_debug_command", "exchange") EXCEPT
                 !.cmd = [dev |-> 0, kind |-> "DEBUG"]])
    /\ UNCHANGED <<session, observers>>
    /\ UNCHANGED caches
    /\ UNCHANGED <<exchange, num_cells_top_bms, conversion, delivered>>

\* lines 594-636: one write, one read until FRAME_END or the timeout
send_debug_command_exchange ==
    /\ Running("send_debug_command", "exchange")
    /\ \E outcome \in DebugOutcomes :
         LET f == [Top EXCEPT !.outcome = outcome,
                              !.writes = IF outcome = "closed" THEN 0 ELSE 1]
         IN  /\ consecutive_failures' = DebugCounter(consecutive_failures, outcome)
             /\ Return(f, IF outcome = "parsed" THEN "data" ELSE "None")
    /\ UNCHANGED <<serial_connection, is_connected, timer_active, num_slaves,
                   events, observers>>
    /\ UNCHANGED telemetry
    /\ UNCHANGED <<exchange, num_cells_top_bms, conversion, delivered>>

----------------------------------------------------------------------------
\* The main window (src/src/main_window.py) as consumer of the signals

\* Bound of the model: the handlers that nested event loops start while one
\* handler of the outer event loop runs
MaxNested == 1

\* on_connection_error("AUTO_DISCONNECT") is called by the emit of line 722,
\* before disconnect() of line 724 has run, and shows a modal dialog
\* (StyledMessageBox.warning -> exec()): a nested event loop runs until the
\* operator closes the dialog.  The frame of the forced disconnect, not yet
\* begun, stands for the open dialog.
DialogOpen ==
    /\ Len(stack) >= 2
    /\ Top.fn = "disconnect" /\ Top.pc = "begin"
    /\ stack[Len(stack) - 1].fn = "send"

\* a handler started by the nested event loop runs on top of the stack
NestedCall(f) ==
    /\ DialogOpen
    /\ stack[1].nested < MaxNested
    /\ stack' = Append([stack EXCEPT ![1].nested = @ + 1], f)
    /\ returned' = NoReturn
    /\ UNCHANGED events

\* the update_timer fires while the dialog is open
dialog_update_data ==
    /\ timer_active
    /\ NestedCall(Frame("update_data", "begin"))
    /\ UNCHANGED <<session, observers>>
    /\ UNCHANGED telemetry
    /\ UNCHANGED <<exchange, num_cells_top_bms, conversion, delivered>>

BalancingCommand(dev, k) ==
    [dev |-> dev, kind |-> IF k = 0 THEN "READ_BALANCING_STATUS"
                                    ELSE "READ_BALANCING_STATE"]

BalancingFrame(dev) ==
    [Frame("update_balancing_states", "begin") EXCEPT !.cmd = BalancingCommand(dev, 0)]

\* lines 281-283: the balancing_update_timer runs from construction on
update_balancing_states_call ==
    /\ \E dev \in 1..(1 + Min(num_slaves, MAX_SLAVES)) : Call(BalancingFrame(dev))
    /\ UNCHANGED <<session, observers>>
    /\ UNCHANGED caches
    /\ UNCHANGED <<exchange, num_cells_top_bms, conversion, delivered>>

\* the balancing_update_timer fires while the dialog is open
dialog_update_balancing_states ==
    /\ \E dev \in 1..(1 + Min(num_slaves, MAX_SLAVES)) : NestedCall(BalancingFrame(dev))
    /\ UNCHANGED <<session, observers>>
    /\ UNCHANGED telemetry
    /\ UNCHANGED <<exchange, num_cells_top_bms, conversion, delivered>>

\* lines 611-612
update_balancing_states_begin ==
    /\ Running("update_balancing_states", "begin")
    /\ IF ~is_connected
       THEN Return(Top, "None")
       ELSE stack' = SetTop([Top EXCEPT !.pc = "read"]) /\ returned' = NoReturn
    /\ UNCHANGED <<session, events, observers>>
    /\ UNCHANGED telemetry
    /\ UNCHANGED <<exchange, num_cells_top_bms, conversion, delivered>>

\* lines 617-625: read_balancing_status, then read_balancing_state
update_balancing_states_read ==
    /\ Running("update_balancing_states", "read")
    /\ IF Top.k < 2
       THEN /\ stack' = Append(SetTop([Top EXCEPT !.k = @ + 1]),
                               SendFrame(BalancingCommand(Top.cmd.dev, Top.k)))
            /\ returned' = NoReturn
       ELSE Return(Top, "None")
    /\ UNCHANGED <<session, events, observers>>
    /\ UNCHANGED telemetry
    /\ UNCHANGED <<exchange, num_cells_top_bms, conversion, delivered>>

----------------------------------------------------------------------------

\* The conversion functions of src/src/protocol/modbus_rtu.py.  A physical
\* value is kept as the integer the function divides: a die temperature in
\* tenths of a degree, a current in milliamperes.

\* no conversion function has been applied; `back' is the result of the
\* inverse function applied to `result'
NoConversion ==
    [fn |-> "-", arg |-> 0, applied |-> FALSE, raised |-> FALSE, result |-> 0,
     back_applied |-> FALSE, back_raised |-> FALSE, back |-> 0]

\* the master's id taken for a slave's
ValidSlaveDeviceId_from_master(device_id) == 1 <= device_id /\ device_id <= 36

\* get_slave_number raises ValueError unless 0x02 <= device_id <= 0x24
ValidSlaveDeviceId(device_id) == 2 <= device_id /\ device_id <= 36

\* device id -> slave number
get_slave_number(device_id) == device_id - 1

\* (raw_value & mask) == mask for a mask of one bit, 2^bit
BitSet(raw_value, bit_value) == (raw_value \div bit_value) % 2 = 1

\* lines 415-421: if the sign bit 0x8000 is set,
\* raw_value = (~raw_value + 1) & 0x7FFF and the result is -raw_value / 10.0,
\* otherwise raw_value / 10.0.  ~raw_value + 1 is -raw_value, and & 0x7FFF of
\* a negative integer is its residue modulo 0x8000.
die_temperature_from_raw(raw_value) ==
    IF BitSet(raw_value, 32768)
    THEN -1 * ((-raw_value) % 32768)
    ELSE raw_value

\* lines 353-359: the same with the sign bit 0x800000 and the mask 0x7FFFFF
current_from_raw(raw_value) ==
    IF BitSet(raw_value, 8388608)
    THEN -1 * ((-raw_value) % 8388608)
    ELSE raw_value

\* the slave numbers and device ids the addressing functions are given: the
\* ranges they accept and the values around them
SlaveNumberInputs == -1..(MAX_SLAVES + 2)

SlaveDeviceIdInputs == -1..(MAX_SLAVES + 3)

\* every 16-bit word
DieTemperatureInputs == 0..65535

\* 24-bit values at both ends of the range and on both sides of the sign bit
CurrentInputs ==
    (0..15) \cup (8388600..8388615) \cup (16777200..16777215) \cup {4660, 11259375}

ConversionInputs(fn) ==
    CASE fn = "get_slave_device_id" -> SlaveNumberInputs
      [] fn = "get_slave_number" -> SlaveDeviceIdInputs
      [] fn = "die_temperature_from_raw" -> DieTemperatureInputs
      [] OTHER -> CurrentInputs

ConversionFunctions ==
    {"get_slave_device_id", "get_slave_number", "die_temperature_from_raw",
     "current_from_raw"}

Converts(fn) == conversion.fn = fn /\ ~conversion.applied

UnchangedByConversion ==
    UNCHANGED <<session, stack, returned, events, observers, telemetry, exchange,
                num_cells_top_bms, delivered>>

apply_get_slave_device_id ==
    /\ Converts("get_slave_device_id")
    /\ conversion' =
          IF ValidSlaveNumber(conversion.arg)
          THEN [conversion EXCEPT !.applied = TRUE,
                                  !.result = get_slave_device_id(conversion.arg)]
          ELSE [conversion EXCEPT !.applied = TRUE, !.raised = TRUE]
    /\ UnchangedByConversion

apply_get_slave_number ==
    /\ Converts("get_slave_number")
    /\ conversion' =
          IF ValidSlaveDeviceId(conversion.arg)
          THEN [conversion EXCEPT !.applied = TRUE,
                                  !.result = get_slave_number(conversion.arg)]
          ELSE [conversion EXCEPT !.applied = TRUE, !.raised = TRUE]
    /\ UnchangedByConversion

\* the other addressing function applied to the result of the first
apply_inverse ==
    /\ conversion.fn \in {"get_slave_device_id", "get_slave_number"}
    /\ conversion.applied /\ ~conversion.raised /\ ~conversion.back_applied
    /\ conversion' =
          IF conversion.fn = "get_slave_device_id"
          THEN IF ValidSlaveDeviceId(conversion.result)
               THEN [conversion EXCEPT !.back_applied = TRUE,
                                       !.back = get_slave_number(conversion.result)]
               ELSE [conversion EXCEPT !.back_applied = TRUE, !.back_raised = TRUE]
          ELSE IF ValidSlaveNumber(conversion.result)
               THEN [conversion EXCEPT !.back_applied = TRUE,
                                       !.back = get_slave_device_id(conversion.result)]
               ELSE [conversion EXCEPT !.back_applied = TRUE, !.back_raised = TRUE]
    /\ UnchangedByConversion

apply_die_temperature_from_raw ==
    /\ Converts("die_temperature_from_raw")
    /\ conversion' = [conversion EXCEPT
                         !.applied = TRUE,
                         !.result = die_temperature_from_raw(conversion.arg)]
    /\ UnchangedByConversion

apply_current_from_raw ==
    /\ Converts("current_from_raw")
    /\ conversion' = [conversion EXCEPT
                         !.applied = TRUE,
                         !.result = current_from_raw(conversion.arg)]
    /\ UnchangedByConversion

NextConvert ==
    \/ apply_get_slave_device_id
    \/ apply_get_slave_number
    \/ apply_inverse
    \/ apply_die_temperature_from_raw
    \/ apply_current_from_raw

\* a function and its argument are chosen
InitConvert ==
    /\ serial_connection = "None"
    /\ is_connected = FALSE
    /\ consecutive_failures = 0
    /\ timer_active = FALSE
    /\ num_slaves = 0
    /\ stack = <<>>
    /\ returned = NoReturn
    /\ events = <<>>
    /\ fail_run = 0
    /\ fails_before_success = 0
    /\ auto_disconnects = 0
    /\ master_data = InitialMasterData
    /\ slave_data = NoSlaveData
    /\ snapshot = NoSnapshot
    /\ exchange = NoExchange
    /\ num_cells_top_bms = 16
    /\ delivered = NoDelivery
    /\ \E fn \in ConversionFunctions : \E arg \in ConversionInputs(fn) :
         conversion = [NoConversion EXCEPT !.fn = fn, !.arg = arg]

SpecConvert == InitConvert /\ [][NextConvert]_vars

Init ==
    /\ serial_connection = "None"
    /\ is_connected = FALSE
    /\ consecutive_failures = 0
    /\ timer_active = FALSE
    /\ num_slaves \in 0..MaxNumSlaves
    /\ stack = <<>>
    /\ returned = NoReturn
    /\ events = <<>>
    /\ fail_run = 0
    /\ fails_before_success = 0
    /\ auto_disconnects = 0
    /\ master_data = InitialMasterData
    /\ slave_data = NoSlaveData
    /\ snapshot = NoSnapshot
    /\ exchange = NoExchange
    /\ num_cells_top_bms = 16
    /\ conversion = NoConversion
    /\ delivered = NoDelivery

Next ==
    \/ connect_call
    \/ connect_open
    \/ connect_probed
    \/ disconnect_call
    \/ disconnect_begin
    \/ disconnect_close
    \/ update_data_call
    \/ update_data_begin
    \/ update_data_poll
    \/ update_data_emit
    \/ command_call
    \/ send_entry
    \/ send_attempt
    \/ send_exhausted
    \/ send_return_none

Spec == Init /\ [][Next]_vars

\* The session driven through its interface by any caller: connect() is
\* called on connected sessions too.
NextReconnect ==
    \/ Next
    \/ connect_again_call

SpecReconnect == Init /\ [][NextReconnect]_vars

\* The session with the main window attached: the balancing timer, and the
\* timers firing in the nested event loop of the AUTO_DISCONNECT dialog.
NextUI ==
    \/ Next
    \/ update_balancing_states_call
    \/ update_balancing_states_begin
    \/ update_balancing_states_read
    \/ dialog_update_data
    \/ dialog_update_balancing_states

\* The telemetry of a session: a Connected session as connect() leaves it,
\* polled and reconfigured, each command one step.
InitData ==
    /\ serial_connection = "Open"
    /\ is_connected = TRUE
    /\ consecutive_failures = 0
    /\ timer_active = TRUE
    /\ num_slaves \in 0..MaxNumSlaves
    /\ stack = <<>>
    /\ returned = NoReturn
    /\ events = <<>>
    /\ fail_run = 0
    /\ fails_before_success = 0
    /\ auto_disconnects = 0
    /\ master_data = InitialMasterData
    /\ slave_data = NoSlaveData
    /\ snapshot = NoSnapshot
    /\ exchange = NoExchange
    /\ num_cells_top_bms = 16
    /\ conversion = NoConversion
    /\ delivered = NoDelivery

NextData ==
    \/ update_data_call
    \/ update_data_begin
    \/ update_data_read
    \/ update_data_emit
    \/ set_num_slaves_apply
    \/ on_num_slaves_changed

SpecData == InitData /\ [][NextData]_vars

\* The same session with a consumer connected to data_received that keeps
\* the dict of the last emission.
InitSnapshot ==
    /\ serial_connection = "Open"
    /\ is_connected = TRUE
    /\ consecutive_failures = 0
    /\ timer_active = TRUE
    /\ num_slaves \in 0..MaxNumSlaves
    /\ stack = <<>>
    /\ returned = NoReturn
    /\ events = <<>>
    /\ fail_run = 0
    /\ fails_before_success = 0
    /\ auto_disconnects = 0
    /\ master_data = InitialMasterData
    /\ slave_data = NoSlaveData
    /\ snapshot = NoSnapshot
    /\ exchange = NoExchange
    /\ num_cells_top_bms = 16
    /\ conversion = NoConversion
    /\ delivered = [NoDelivery EXCEPT !.keeping = TRUE]

SpecSnapshot == InitSnapshot /\ [][NextData]_vars

\* The codec: commands are built, and the bytes that arrive for a command
\* are parsed.
NextCodec ==
    \/ build_command
    \/ receive_response

\* the arguments of the command are chosen
InitCodec ==
    /\ serial_connection = "None"
    /\ is_connected = FALSE
    /\ consecutive_failures = 0
    /\ timer_active = FALSE
    /\ num_slaves = 0
    /\ stack = <<>>
    /\ returned = NoReturn
    /\ events = <<>>
    /\ fail_run = 0
    /\ fails_before_success = 0
    /\ auto_disconnects = 0
    /\ master_data = InitialMasterData
    /\ slave_data = NoSlaveData
    /\ snapshot = NoSnapshot
    /\ num_cells_top_bms = 16
    /\ conversion = NoConversion
    /\ delivered = NoDelivery
    /\ \E func \in {FUNC_READ, FUNC_WRITE}, device_id \in CodecDevices,
          address \in CodecAddresses, word \in CodecWords :
         exchange = [NoExchange EXCEPT !.func = func, !.device_id = device_id,
                                       !.address = address, !.word = word]

SpecCodec == InitCodec /\ [][NextCodec]_vars

\* The codec of the debug frames.
NextDebugCodec ==
    \/ build_debug
    \/ receive_debug_response

\* the bytes of the debug command are chosen
InitDebugCodec ==
    /\ serial_connection = "None"
    /\ is_connected = FALSE
    /\ consecutive_failures = 0
    /\ timer_active = FALSE
    /\ num_slaves = 0
    /\ stack = <<>>
    /\ returned = NoReturn
    /\ events = <<>>
    /\ fail_run = 0
    /\ fails_before_success = 0
    /\ auto_disconnects = 0
    /\ master_data = InitialMasterData
    /\ slave_data = NoSlaveData
    /\ snapshot = NoSnapshot
    /\ num_cells_top_bms = 16
    /\ conversion = NoConversion
    /\ delivered = NoDelivery
    /\ \E command_bytes \in DebugCommands :
         exchange = [NoExchange EXCEPT !.func = FUNC_DEBUG,
                                       !.command_bytes = command_bytes]

SpecDebugCodec == InitDebugCodec /\ [][NextDebugCodec]_vars

\* The session with the debug page of the operator interface in use.
NextDebug ==
    \/ Next
    \/ send_debug_command_call
    \/ send_debug_command_exchange

SpecDebug == Init /\ [][NextDebug]_vars

\* The session used through its interface by a caller that configures the
\* number of slaves.
NextConfig ==
    \/ connect_call
    \/ connect_open
    \/ connect_probed
    \/ disconnect_begin
    \/ disconnect_close
    \/ set_num_slaves_call
    \/ set_num_slaves_check
    \/ set_num_slaves_written
    \/ update_data_call
    \/ update_data_begin
    \/ update_data_poll
    \/ update_data_emit
    \/ send_entry
    \/ send_attempt
    \/ send_exhausted
    \/ send_return_none

\* line 39: self.num_slaves = 0
InitConfig == Init /\ num_slaves = 0

SpecConfig == InitConfig /\ [][NextConfig]_vars

\* The session used through its interface by a caller that passes any
\* device id.
NextDevice ==
    \/ connect_call
    \/ connect_open
    \/ connect_probed
    \/ disconnect_begin
    \/ disconnect_close
    \/ device_call
    \/ send_entry
    \/ send_attempt
    \/ send_exhausted
    \/ send_return_none

SpecDevice == Init /\ [][NextDevice]_vars

\* what the polls of earlier connections may have left in slave_data
CachedSlaveData(n) ==
    {[id \in S |-> [NewSlaveEntry EXCEPT !.values = 1]] : S \in SUBSET ConfiguredSlaveIds(n)}

\* The session used through its interface by a caller that passes any
\* argument.
NextArgs ==
    \/ connect_call
    \/ connect_open
    \/ connect_probed
    \/ disconnect_begin
    \/ disconnect_close
    \/ set_num_slaves_call
    \/ set_num_slaves_check
    \/ set_num_slaves_written
    \/ set_num_cells_top_bms_call
    \/ set_num_cells_top_bms_check
    \/ set_num_cells_top_bms_written
    \/ send_entry
    \/ send_attempt
    \/ send_exhausted
    \/ send_return_none

\* a Closed session that has been connected and polled before
InitArgs ==
    /\ serial_connection = "None"
    /\ is_connected = FALSE
    /\ consecutive_failures = 0
    /\ timer_active = FALSE
    /\ num_slaves \in 0..MaxNumSlaves
    /\ stack = <<>>
    /\ returned = NoReturn
    /\ events = <<>>
    /\ fail_run = 0
    /\ fails_before_success = 0
    /\ auto_disconnects = 0
    /\ master_data = InitialMasterData
    /\ slave_data \in CachedSlaveData(num_slaves)
    /\ snapshot = NoSnapshot
    /\ exchange = NoExchange
    /\ num_cells_top_bms = 16
    /\ conversion = NoConversion
    /\ delivered = NoDelivery

SpecArgs == InitArgs /\ [][NextArgs]_vars

\* master_page.py line 181: the window is built with no slave configured
InitUI == Init /\ num_slaves = 0

SpecUI == InitUI /\ [][NextUI]_vars

----------------------------------------------------------------------------
\* Properties.  `returned' describes the call that returned in the step just
\* taken, so a predicate on it is evaluated in the state that call left.

Emitted(e) == \E i \in DOMAIN events : events[i] = e

\* the connection_error signal carries these; connected=... and the snapshot
\* are other signals
IsConnectionError(e) == e \in {"AUTO_DISCONNECT", "ERROR_NO_RESPONSE", "ERROR_EXCEPTION"}

CommandReturned(result) == returned.fn = "send" /\ returned.result = result

C2_OncePerEpisode == auto_disconnects <= 1

\* C3: a successful command leaves consecutive_failures at 0; after four
\* failed commands and one successful command, a further failed command
\* leaves the counter at 1, the session Connected and no AUTO_DISCONNECT or
\* disconnect has happened.
C3_SuccessResets ==
    /\ CommandReturned("ok") => consecutive_failures = 0
    /\ (CommandReturned("None") /\ returned.conn
            /\ fails_before_success = 4 /\ fail_run = 1) =>
          /\ consecutive_failures = 1
          /\ is_connected /\ serial_connection = "Open" /\ timer_active
          /\ auto_disconnects = 0
          /\ ~Emitted("AUTO_DISCONNECT") /\ ~Emitted("CONNECTED_FALSE")

C3_Witness ==
    /\ CommandReturned("None") /\ returned.conn
    /\ fails_before_success = 4 /\ fail_run = 1
    /\ consecutive_failures = 1 /\ is_connected

\* C4: while a command of a Connected session runs, consecutive_failures
\* grows only in the step that ends the exhausted retry loop, and there by
\* exactly 1; no attempt and no success increases it.
C4_OncePerCommand ==
    [][(stack # <<>> /\ Top.fn = "send" /\ Top.conn) =>
          IF Top.pc = "attempt" /\ Top.attempt >= 3
          THEN consecutive_failures' = consecutive_failures + 1
          ELSE consecutive_failures' <= consecutive_failures]_vars

C4_Witness ==
    /\ CommandReturned("None") /\ returned.conn /\ returned.failed = 3
    /\ consecutive_failures = returned.cf0 + 1
    /\ consecutive_failures = 3

\* C5 as stated: at most 3 attempts and 3 writes, the loop stops at the
\* first valid response, and None is returned only after exactly 3
\* unsuccessful attempts.
C5_NoneOnlyAfterThreeAttempts ==
    returned.fn = "send" =>
        /\ returned.tries <= 3 /\ returned.writes <= 3
        /\ returned.result = "ok" => returned.tries = returned.failed + 1
        /\ returned.result = "None" => returned.tries = 3 /\ returned.failed = 3

\* C5 amended: at most 3 attempts and 3 writes, the loop stops at the first
\* valid response; with the handle open at the call None is returned only
\* after exactly 3 unsuccessful attempts, and with the handle missing or
\* closed None is returned without any attempt or write.
C5_AtMostThreeAttempts ==
    /\ \A i \in DOMAIN stack : stack[i].tries <= 3 /\ stack[i].writes <= stack[i].tries
    /\ returned.fn = "send" =>
        /\ returned.tries <= 3 /\ returned.writes <= 3
        /\ returned.result = "ok" => returned.tries = returned.failed + 1
        /\ (returned.result = "None" /\ returned.open0) =>
               returned.tries = 3 /\ returned.failed = 3
        /\ (returned.result = "None" /\ ~returned.open0) =>
               returned.tries = 0 /\ returned.writes = 0

C5_Witness ==
    /\ CommandReturned("None") /\ returned.open0
    /\ returned.tries = 3 /\ returned.writes = 3

\* C6: a connect() whose probe received a valid response returns True with
\* is_connected true, consecutive_failures 0, connected=true emitted and the
\* poll timer running.
C6_ConnectSuccess ==
    (returned.fn = "connect" /\ returned.probe = "ok") =>
        /\ returned.result = "True"
        /\ is_connected
        /\ consecutive_failures = 0
        /\ Emitted("CONNECTED_TRUE")
        /\ timer_active
        /\ serial_connection = "Open"

C6_Witness ==
    /\ returned.fn = "connect" /\ returned.probe = "ok"
    /\ returned.result = "True" /\ timer_active

\* C7: a connect() whose probe got no valid response in any attempt returns
\* False with the handle released, is_connected false, the poll timer not
\* running and no connected=true emitted.
C7_ConnectFailure ==
    (returned.fn = "connect" /\ returned.probe = "None") =>
        /\ returned.result = "False"
        /\ serial_connection = "None"
        /\ ~is_connected
        /\ ~timer_active
        /\ ~Emitted("CONNECTED_TRUE")

C7_Witness ==
    /\ returned.fn = "connect" /\ returned.probe = "None"
    /\ returned.result = "False" /\ serial_connection = "None"

\* C8: a failed connect() emits exactly one connection_error, the
\* no-response reason, and never AUTO_DISCONNECT.
C8_FailedConnectSurfacedOnce ==
    (returned.fn = "connect" /\ returned.probe = "None") =>
        SelectSeq(events, IsConnectionError) = <<"ERROR_NO_RESPONSE">>

\* C9: disconnect() returns from every state without raising, and leaves
\* is_connected false, the handle released, the poll timer stopped and
\* connected=false emitted.
C9_DisconnectTotal ==
    returned.fn = "disconnect" =>
        /\ ~returned.raised
        /\ ~is_connected
        /\ serial_connection = "None"
        /\ ~timer_active
        /\ events # <<>> /\ events[Len(events)] = "CONNECTED_FALSE"

C9_Witness ==
    /\ returned.fn = "disconnect" /\ ~returned.open0 /\ ~returned.raised
    /\ Emitted("CONNECTED_FALSE")

\* C10: when disconnect() returns consecutive_failures is 0.
C10_DisconnectResetsCounter ==
    returned.fn = "disconnect" => consecutive_failures = 0

\* a call of _send_command_with_retry that has been entered and has not
\* returned
PendingSends == {i \in DOMAIN stack : stack[i].fn = "send"}

\* C11 as stated: commands are strictly serialized: no call of
\* _send_command_with_retry (poll timer, balancing timer, user command)
\* begins while another call has not yet returned.
C11_OneCallAtATime == Cardinality(PendingSends) <= 1

\* C11 amended: no call of _send_command_with_retry begins while another
\* call is still in its retry loop; a call begun inside a pending call (the
\* comm-stop of the forced disconnect, the commands of a timer firing while
\* the AUTO_DISCONNECT dialog is open) finds that call past its last attempt,
\* with only `return None' left to do.
C11_SerializedOnTransport ==
    \A i \in PendingSends : i < Len(stack) =>
        /\ stack[i].pc = "return_none"
        /\ ~stack[i].open0 \/ stack[i].attempt = retry_count

C11_Witness ==
    /\ Running("send", "attempt")
    /\ Top.cmd.kind = "READ_ALL"
    /\ \E i \in PendingSends : i < Len(stack) /\ stack[i].pc = "return_none"

\* the place of a read among the three reads of one device
ReadRank(kind) ==
    CASE kind = "READ_ALL" -> 1 [] kind = "DIE_TEMP_1" -> 2 [] kind = "DIE_TEMP_2" -> 3
      [] OTHER -> 0

InPollOrder(issued) ==
    /\ \A i \in DOMAIN issued :
          /\ ReadRank(issued[i].kind) > 0
          /\ issued[i].dev \in DEVICE_MASTER .. get_slave_device_id(MAX_SLAVES)
    /\ \A i, j \in DOMAIN issued : i < j =>
          \* the master before every slave, the slaves by ascending device id,
          \* the reads of one device next to each other
          /\ issued[i].dev <= issued[j].dev
          /\ issued[i].dev = issued[j].dev =>
                 ReadRank(issued[i].kind) < ReadRank(issued[j].kind)
          \* a device is begun only when the one before it has had its
          \* three reads
          /\ issued[i].dev < issued[j].dev =>
                 /\ issued[j].dev = issued[i].dev + 1 \/ j > i + 3
                 /\ \E h \in DOMAIN issued :
                        issued[h].dev = issued[i].dev /\ issued[h].kind = "DIE_TEMP_2"

Snapshots == Cardinality({i \in DOMAIN events : events[i] = "SNAPSHOT"})

\* C13: every poll tick that starts while Connected emits exactly one
\* snapshot, for every num_slaves that set_num_slaves accepts (0..60); with
\* more than 35 slaves configured the tick polls slaves 1..35 only and still
\* emits its snapshot.
C13_OneSnapshotPerTick ==
    /\ (returned.fn = "update_data" /\ returned.conn) =>
          /\ ~returned.raised
          /\ Snapshots = 1
    /\ \A i \in DOMAIN stack : stack[i].fn = "update_data" =>
          /\ stack[i].k <= 3 * (1 + MAX_SLAVES)
          /\ Snapshots = 0

\* C16: a snapshot is emitted only while the session is Connected: once
\* connected=false has been emitted no snapshot follows until a later
\* connect() succeeds, also within the tick during which the disconnect
\* happened.
C16_SnapshotOnlyWhileConnected ==
    /\ \A i, j \in DOMAIN events :
          (i < j /\ events[i] = "CONNECTED_FALSE") => events[j] # "SNAPSHOT"
    /\ (returned.fn = "update_data" /\ Snapshots > 0) => is_connected

\* C17: send_debug_command never changes consecutive_failures and never
\* causes an AUTO_DISCONNECT event or a disconnect, whether it succeeds,
\* times out, receives a malformed response, hits a serial exception or is
\* called on a closed session; in every failure case it returns None.
C17_DebugLeavesSessionAlone ==
    /\ returned.fn = "send_debug_command" =>
          /\ ~returned.raised
          /\ consecutive_failures = returned.cf0
          /\ is_connected = returned.conn
          /\ (serial_connection = "Open") = returned.open0
          /\ events = <<>>
          /\ returned.outcome # "parsed" => returned.result = "None"
          /\ returned.outcome = "parsed" => returned.result = "data"
    /\ \A i \in DOMAIN stack :
          i > 1 => stack[i - 1].fn # "send_debug_command"

C17_Witness ==
    /\ returned.fn = "send_debug_command"
    /\ returned.outcome = "silent"
    /\ returned.result = "None"
    /\ returned.conn /\ consecutive_failures = 4 /\ is_connected

CachedEntry(master, slaves, dev) ==
    IF dev = DEVICE_MASTER THEN [cached |-> TRUE, data |-> master]
    ELSE IF dev \in DOMAIN slaves THEN [cached |-> TRUE, data |-> slaves[dev]]
    ELSE [cached |-> FALSE, data |-> NewSlaveEntry]

\* C15: for the master and for every configured slave, a failed combined
\* read leaves the device's previously parsed cell voltages and temperatures
\* unchanged, a die-temperature read that succeeds is taken over, and the
\* snapshot the tick emits holds these values.
C15_FailedReadKeepsValues ==
    [][/\ (Running("update_data", "poll") /\ stack' # <<>> /\ Top'.k = Top.k + 1) =>
            LET cmd    == Top'.issued[Top'.k]
                r      == Top'.read
                before == CachedEntry(master_data, slave_data, cmd.dev)
                after  == CachedEntry(master_data', slave_data', cmd.dev)
            IN  /\ (cmd.kind = "READ_ALL" /\ r = NoReading) =>
                       /\ after.cached = before.cached
                       /\ after.data.values = before.data.values
                /\ (cmd.kind = "DIE_TEMP_1" /\ r # NoReading) =>
                       after.cached /\ after.data.die1 = r
                /\ (cmd.kind = "DIE_TEMP_2" /\ r # NoReading) =>
                       after.cached /\ after.data.die2 = r
       /\ (Running("update_data", "poll") /\ snapshot'.emitted) =>
            /\ snapshot'.master = master_data
            /\ \A id \in DOMAIN slave_data \cap (2..(num_slaves + 1)) :
                   id \in DOMAIN snapshot'.slaves /\ snapshot'.slaves[id] = slave_data[id]
      ]_vars

\* the received bytes are a read response with a good start byte and CRC
\* that is shorter than 5 + byte_count + 2 bytes
ShortReadResponse(r) ==
    /\ Len(r) >= 6
    /\ r[1] = FRAME_START
    /\ r[Len(r) - 1] + 256 * r[Len(r)] = calculate_crc16(SubSeq(r, 2, Len(r) - 2))
    /\ r[3] = FUNC_READ
    /\ Len(r) < 5 + (256 * r[4] + r[5]) + 2

\* C18: received bytes that are fewer than 6, or do not begin with the start
\* byte, or whose last two bytes (low byte first) are not the CRC16 of the
\* bytes between the start byte and the CRC, are parsed to None and are
\* never accepted by the retry loop as a successful response.
C18_CrcGate ==
    exchange.received =>
        LET r == exchange.response
        IN  (\/ Len(r) < 6
             \/ r[1] # FRAME_START
             \/ r[Len(r) - 1] + 256 * r[Len(r)] #
                    calculate_crc16(SubSeq(r, 2, Len(r) - 2)))
            => (exchange.parsed.none /\ ~exchange.accepted)

\* a frame of full length with the start byte and a wrong CRC was refused
C18_Witness ==
    /\ exchange.received
    /\ Len(exchange.response) >= 8
    /\ exchange.response[1] = FRAME_START
    /\ exchange.response[Len(exchange.response) - 1]
          + 256 * exchange.response[Len(exchange.response)] #
          calculate_crc16(SubSeq(exchange.response, 2, Len(exchange.response) - 2))
    /\ exchange.parsed.none
    /\ ~exchange.accepted

\* C19: a read response shorter than 5 + byte_count + 2 bytes is neither
\* Invalid nor a parsed frame, and the retry loop does not accept it as a
\* successful response.
C19_ShortReadNotAccepted ==
    (exchange.received /\ ShortReadResponse(exchange.response)) =>
        /\ ~exchange.parsed.none
        /\ ~exchange.parsed.has_data
        /\ ~exchange.accepted

\* C20: parse_response accepts every frame that build_read_command or
\* build_write_command produced as valid, and for a write frame the parsed
\* device id, address and data are the values the frame was built from.
C20_RoundTrip ==
    exchange.request # <<>> =>
        LET parsed == parse_response(exchange.request)
        IN  /\ ~parsed.none
            /\ parsed.valid
            /\ parsed.device_id = exchange.device_id
            /\ parsed.function_code = exchange.func
            /\ exchange.func = FUNC_WRITE =>
                   /\ parsed.has_data
                   /\ parsed.address = exchange.address
                   /\ parsed.value = exchange.word

\* a write frame with a word of two non-zero bytes for the last slave and
\* the largest address was built and parsed back
C20_Witness ==
    /\ exchange.request # <<>>
    /\ exchange.func = FUNC_WRITE
    /\ exchange.device_id = get_slave_device_id(MAX_SLAVES)
    /\ exchange.address = 255
    /\ exchange.word = 43690
    /\ parse_response(exchange.request).value = 43690

\* the running call has found its argument outside the accepted range
RejectsArgument ==
    \/ Running("set_num_slaves", "check") /\ (Top.arg < 0 \/ Top.arg > 60)
    \/ Running("set_num_cells_top_bms", "check") /\ (Top.arg < 0 \/ Top.arg > 16)

\* C21: set_num_slaves(n) with n outside 0..60 and set_num_cells_top_bms(n)
\* with n outside 0..16 return False at once: no command is sent, and
\* num_slaves, num_cells_top_bms, the cached slave data, the failure counter
\* and the connection are left as they were.
C21_RejectedBeforeIO ==
    [][RejectsArgument =>
          /\ stack' = Pop
          /\ returned'.fn = Top.fn
          /\ returned'.result = "False"
          /\ ~returned'.raised
          /\ UNCHANGED <<session, num_cells_top_bms, caches, events>>]_vars

\* set_num_cells_top_bms has rejected its argument on a session with cached
\* slave data and failures counted
C21_Witness ==
    /\ returned.fn = "set_num_cells_top_bms"
    /\ returned.arg > 16
    /\ returned.result = "False"
    /\ slave_data # NoSlaveData
    /\ consecutive_failures > 0

\* C22: no frame that carries a device id outside 1..36 is ever written to
\* the transport.
C22_NoFrameForBadDevice ==
    \A i \in DOMAIN stack :
        (stack[i].fn = "send" /\ stack[i].writes > 0) =>
            (1 <= stack[i].cmd.dev /\ stack[i].cmd.dev <= 36)

\* C23: no call of the session raises an exception to its caller.
C23_NoExceptionToCaller == ~returned.raised

\* C24: an attempt of the retry loop that does not end in an accepted
\* response - a serial exception included - consumes that attempt and nothing
\* else: the call does not return and raises nothing, the next attempt is
\* due, session and events are as before; the failure counter is incremented
\* once, when all three attempts have been made.
C24_ExceptionConsumesAttempt ==
    [][/\ (Running("send", "attempt") /\ Top.attempt < retry_count
            /\ ~(returned'.fn = "send" /\ returned'.result = "ok")) =>
              /\ Len(stack') = Len(stack)
              /\ Top'.fn = "send" /\ Top'.pc = "attempt"
              /\ Top'.attempt = Top.attempt + 1
              /\ Top'.tries = Top.tries + 1
              /\ returned' = NoReturn
              /\ UNCHANGED <<session, events>>
       /\ (Running("send", "attempt") /\ Top.attempt >= retry_count) =>
              /\ Top.tries = 3
              /\ consecutive_failures' = consecutive_failures + 1
              /\ ~returned'.raised
      ]_vars

\* a command on an open handle has returned None after three attempts that
\* each raised before the frame was written, counted as one failure
C24_Witness ==
    /\ returned.fn = "send"
    /\ returned.open0
    /\ returned.result = "None"
    /\ ~returned.raised
    /\ returned.tries = 3
    /\ returned.writes = 0
    /\ returned.incs = 1

\* C25: a step of a command that was issued on a Connected session emits
\* nothing as long as it leaves consecutive_failures below 5 or does not
\* count a failure; the step that counts the failure reaching the threshold
\* emits AUTO_DISCONNECT and nothing else.
C25_FailuresNotSurfaced ==
    [][(stack # <<>> /\ Top.fn = "send" /\ Top.conn /\ Top.pc \in {"entry", "attempt"}) =>
          IF consecutive_failures' < 5 \/ consecutive_failures' = consecutive_failures
          THEN events' = events
          ELSE events' = Append(events, "AUTO_DISCONNECT")]_vars

\* the fourth command in a row of a Connected session has failed, and the
\* handler that issued it has emitted nothing
C25_Witness ==
    /\ returned.fn = "send"
    /\ returned.conn
    /\ returned.result = "None"
    /\ returned.tries = 3
    /\ consecutive_failures = 4
    /\ is_connected
    /\ events = <<>>

\* C26: calculate_crc16 and calculate_crc16_debug return the same value for
\* the same bytes: for the bytes of a debug command, for the frame built
\* from them, and for the bytes received.
C26_SameCrc ==
    /\ calculate_crc16(exchange.command_bytes) = calculate_crc16_debug(exchange.command_bytes)
    /\ calculate_crc16(exchange.request) = calculate_crc16_debug(exchange.request)
    /\ calculate_crc16(exchange.response) = calculate_crc16_debug(exchange.response)

\* a debug frame with command bytes has been built: its CRC bytes are those
\* of calculate_crc16 over the function code and the command bytes
C26_Witness ==
    /\ exchange.func = FUNC_DEBUG
    /\ Len(exchange.command_bytes) = 2
    /\ exchange.request # <<>>
    /\ SubSeq(exchange.request, 5, 6) =
           CrcBytes(calculate_crc16(<<FUNC_DEBUG>> \o exchange.command_bytes))
    /\ exchange.received
    /\ Len(exchange.response) >= 5

\* the offset (from 0) of the first end marker at or after offset 2
FirstEndOffset(r) ==
    CHOOSE i \in 2..(Len(r) - 1) :
        r[i + 1] = FRAME_END /\ \A j \in 2..(i - 1) : r[j + 1] # FRAME_END

\* C30: for a debug response that starts with the start byte and FUNC_DEBUG,
\* the result is None exactly when no end marker is found at or after offset
\* 2, and otherwise the payload is the bytes from offset 2 up to the first
\* end marker.
C30_DebugPayload ==
    (/\ exchange.func = FUNC_DEBUG
     /\ exchange.received
     /\ Len(exchange.response) >= 2
     /\ exchange.response[1] = FRAME_START
     /\ exchange.response[2] = FUNC_DEBUG) =>
        LET r == exchange.response
            has_end == \E i \in 2..(Len(r) - 1) : r[i + 1] = FRAME_END
        IN  /\ exchange.parsed.none <=> ~has_end
            /\ has_end => exchange.parsed.data = SubSeq(r, 3, FirstEndOffset(r))

\* C27: get_slave_device_id accepts exactly the slave numbers 1..35 and
\* get_slave_number exactly the device ids 2..36, each fails for every other
\* input, and each undoes the other: get_slave_number(get_slave_device_id(n))
\* = n for n in 1..35, and the device ids 2..36 are all reached.
C27_AddressingBijection ==
    /\ (conversion.fn = "get_slave_device_id" /\ conversion.applied) =>
          /\ conversion.raised <=> ~(conversion.arg \in 1..35)
          /\ ~conversion.raised => conversion.result \in 2..36
          /\ conversion.back_applied =>
                (~conversion.back_raised /\ conversion.back = conversion.arg)
    /\ (conversion.fn = "get_slave_number" /\ conversion.applied) =>
          /\ conversion.raised <=> ~(conversion.arg \in 2..36)
          /\ ~conversion.raised => conversion.result \in 1..35
          /\ conversion.back_applied =>
                (~conversion.back_raised /\ conversion.back = conversion.arg)

\* the last slave number has been mapped to its device id and back
C27_Witness ==
    /\ conversion.fn = "get_slave_device_id"
    /\ conversion.arg = 35
    /\ conversion.result = 36
    /\ conversion.back_applied
    /\ conversion.back = 35

\* C28: for every raw word in 0..0xFFFF die_temperature_from_raw returns, in
\* tenths of a degree, the 16-bit two's-complement value of the word: raw
\* below 0x8000, raw - 65536 from 0x8000 on.
C28_DieTemperature ==
    (conversion.fn = "die_temperature_from_raw" /\ conversion.applied) =>
        conversion.result =
            IF conversion.arg < 32768 THEN conversion.arg ELSE conversion.arg - 65536

\* C29: for every raw value in 0..0xFFFFFF current_from_raw returns, in
\* milliamperes, the 24-bit two's-complement value: raw below 0x800000,
\* raw - 16777216 from 0x800000 on.
C29_Current ==
    (conversion.fn = "current_from_raw" /\ conversion.applied) =>
        conversion.result =
            IF conversion.arg < 8388608 THEN conversion.arg
            ELSE conversion.arg - 16777216

----------------------------------------------------------------------------
\* positions of the stack at which the comm-stop command of disconnect() is
\* being sent
StopSends(s) == {i \in DOMAIN s : s[i].fn = "send" /\ s[i].cmd = COMM_STOP}

\* C32: in disconnect() the comm-stop command is sent only while the serial
\* handle is open, after is_connected has been set false and the poll timer
\* stopped, and before the handle is closed; connected=false is emitted only
\* once the comm-stop command is over and the handle has been released.
C32_StopCommandOrder ==
    [][/\ StopSends(stack') # {} =>
              /\ ~is_connected'
              /\ ~timer_active'
              /\ serial_connection' = "Open"
       /\ (Len(events') > Len(events)
             /\ events'[Len(events')] = "CONNECTED_FALSE") =>
              /\ serial_connection' = "None"
              /\ StopSends(stack) = {}
              /\ StopSends(stack') = {}]_vars

C32_Witness ==
    /\ Running("disconnect", "close")
    /\ returned.fn = "send" /\ returned.cmd = COMM_STOP /\ returned.writes > 0
    /\ returned.open0
    /\ ~is_connected /\ ~timer_active /\ serial_connection = "Open"
    /\ ~Emitted("CONNECTED_FALSE")

\* C33: the comm-stop command that disconnect() sends while it handles an
\* auto-disconnect starts from a counter of 0 and leaves it at 1 at most,
\* below the threshold: nothing is called from it, and a disconnect() that
\* has begun has nothing above it but its own comm-stop command, so
\* _check_connection_health never starts a second disconnect() inside it.
C33_ForcedDisconnectTerminates ==
    /\ \A i \in StopSends(stack) :
          /\ i = Len(stack)
          /\ consecutive_failures <= 1
          /\ ~HealthExceeded(consecutive_failures)
    /\ \A i \in DOMAIN stack :
          (stack[i].fn = "disconnect" /\ stack[i].pc = "close") =>
              \/ i = Len(stack)
              \/ i = Len(stack) - 1 /\ StopSends(stack) = {Len(stack)}

C33_Witness ==
    /\ Len(stack) >= 2
    /\ Running("disconnect", "close")
    /\ stack[Len(stack) - 1].fn = "send"
    /\ stack[Len(stack) - 1].pc = AfterHealthCheck
    /\ Emitted("AUTO_DISCONNECT")
    /\ returned.fn = "send" /\ returned.cmd = COMM_STOP
    /\ returned.result = "None" /\ returned.tries = retry_count
    /\ consecutive_failures = 1

\* C36: whenever no session operation is executing consecutive_failures is
\* between 0 and 4.
C36_CounterBelowThresholdAtRest ==
    Idle => consecutive_failures \in 0..(max_consecutive_failures - 1)

C36_Witness ==
    /\ Idle
    /\ consecutive_failures = max_consecutive_failures - 1
    /\ returned.fn = "send" /\ returned.result = "None" /\ returned.incs = 1

\* C35: in every state reached by connect, disconnect, command and tick
\* operations, connect() on a connected session included, is_connected is
\* true only if the serial handle exists and is open.
C35_ConnectedOnlyWithOpenHandle ==
    (Idle /\ is_connected) => serial_connection = "Open"

\* positions of the stack holding a disconnect() forced by
\* _check_connection_health: from the emission of AUTO_DISCONNECT until that
\* disconnect() has returned
ForcedDisconnects(s) ==
    {i \in DOMAIN s : i > 1 /\ s[i].fn = "disconnect" /\ s[i - 1].fn = "send"}

\* C34: between the emission of AUTO_DISCONNECT and the completion of the
\* forced disconnect no poll tick and no timer-driven command runs, a
\* consumer showing a modal dialog included.
C34_NoPollDuringForcedDisconnect ==
    \A i \in ForcedDisconnects(stack) :
        \A j \in DOMAIN stack :
            j > i => stack[j].fn \notin {"update_data", "update_balancing_states"}

\* C37: _send_command_with_retry reports success for a command only when
\* the accepted response carries the device id and the function code of the
\* request.
C37_SuccessAnswersRequest ==
    exchange.accepted =>
        /\ exchange.parsed.device_id = exchange.request[2]
        /\ exchange.parsed.function_code = exchange.request[3]

\* C38: a set_num_slaves(new) with new in 0..60, called with num_slaves = old
\* in 0..60, whose write command succeeds returns True, sets num_slaves to
\* new and leaves no cached entry for a slave number greater than new.
C38_SetNumSlavesSucceeds ==
    [][(Running("set_num_slaves", "written") /\ returned.result = "ok") =>
           /\ returned'.fn = "set_num_slaves"
           /\ ~returned'.raised
           /\ returned'.result = "True"
           /\ num_slaves' = Top.arg
           /\ \A id \in DOMAIN slave_data' : id <= get_slave_device_id(Top.arg)]_vars

\* a set_num_slaves or set_num_cells_top_bms call that passed its range
\* check is under way
SettingCall ==
    stack # <<>> /\ stack[1].fn \in {"set_num_slaves", "set_num_cells_top_bms"}

\* the write command of the call on top of the stack is back and has failed
WriteFailed ==
    /\ Len(stack) = 1 /\ SettingCall /\ Top.pc = "written"
    /\ returned.fn = "send" /\ returned.result = "None"

\* C39 as stated: a set_num_slaves or set_num_cells_top_bms call whose write
\* command failed after all retries returns False and leaves num_slaves,
\* num_cells_top_bms, the cached slave data and the rest of the session as
\* they were at the call; only consecutive_failures has changed.
C39_OnlyCounterChanges ==
    [][WriteFailed =>
           /\ returned'.result = "False" /\ ~returned'.raised
           /\ UNCHANGED <<num_slaves, num_cells_top_bms, slave_data>>
           /\ is_connected' = Top.conn
           /\ (serial_connection' = "Open") = Top.open0
           /\ timer_active' = Top.conn]_vars

\* C39, amended: the configuration and the cache are unchanged at every step
\* of a call whose write fails, and the call returns False; the session is
\* as it was at the call but for consecutive_failures, unless the failure
\* was the fifth in a row: then AUTO_DISCONNECT was emitted, the session is
\* disconnected and consecutive_failures is 0 or 1.
C39_FailedWriteKeepsConfiguration ==
    [][/\ (SettingCall /\ ~(Top.pc = "written" /\ returned.result = "ok")) =>
              UNCHANGED <<num_slaves, num_cells_top_bms, slave_data>>
       /\ WriteFailed =>
              /\ returned'.result = "False" /\ ~returned'.raised
              /\ IF Emitted("AUTO_DISCONNECT")
                 THEN /\ ~is_connected' /\ serial_connection' = "None"
                      /\ ~timer_active'
                      /\ consecutive_failures' \in {0, 1}
                 ELSE /\ is_connected' = Top.conn
                      /\ (serial_connection' = "Open") = Top.open0
                      /\ timer_active' = timer_active
                      /\ events' = <<>>
                      /\ consecutive_failures' = Top.cf0 + 1]_vars

C39_Witness ==
    /\ returned.fn = "set_num_slaves" /\ returned.result = "False"
    /\ ValidNumSlavesArg(returned.arg) /\ returned.arg # num_slaves
    /\ returned.conn /\ returned.open0
    /\ returned.cf0 = max_consecutive_failures - 1
    /\ Emitted("AUTO_DISCONNECT")
    /\ ~is_connected /\ serial_connection = "None"
    /\ slave_data # <<>>

\* what the consumer reads in an entry of the dict it keeps: the value
\* copied at the emission, or the cached object if the entry is that object
\* and the cache still holds it
ReadBack(entry, cached, live) ==
    IF entry.shared /\ cached THEN live ELSE entry.value

====
